---- MODULE Spec2Model ----
(***************************************************************************)
(* multiselect: an X11 client that owns the PRIMARY selection and lets the *)
(* user pick one of several stored strings at each paste.                  *)
(*                                                                         *)
(* The model follows main() of multiselect.c (the version with click mode, *)
(* the flash window and the external helper): the program's local         *)
(* variables are the variables of the module, the X display is the record  *)
(* dpy (event queue, map state of the two windows, selection owner, focus, *)
(* pointer grab, server time and the requests issued by the last handler), *)
(* and every case of the event loop is one action.                         *)
(***************************************************************************)
EXTENDS Integers, Sequences, FiniteSets, TLC

(***************************************************************************)
(* Program constants.                                                      *)
(***************************************************************************)
MAXNUM == 20
interval == 80000
starthide == 800000
changehide == 500000
messagehide == 800000
CurrentTime == 0

\* keysyms (X11/keysymdef.h), as used by the KeyPress handler
XK_BackSpace == 65288
XK_Return == 65293
XK_Up == 65362
XK_Down == 65364
XK_KP_Enter == 65421
XK_F1 == 65470
XK_F2 == 65471
XK_F3 == 65472
XK_F4 == 65473
XK_F5 == 65474
XK_Delete == 65535

(***************************************************************************)
(* Bounds of the model.                                                    *)
(***************************************************************************)
\* selection requests sent by other clients in one run
MaxRequests == 2
\* key presses of the user in one run of the selection protocol
MaxUser == 2
\* key presses and button releases of the user in one run of the menu
MaxMenuUser == 3
\* conversions answered by another owner (captures) in one run
MaxCaptures == 1
\* selection requests sent in one run of the firefox scenario
MaxFirefoxRequests == 3
\* events waiting in the queue of the display connection
MaxQueue == 2
\* the wall clock reads StartSec seconds when the main loop starts
StartSec == 1000

(***************************************************************************)
(* C strings are sequences of bytes (1..255); the null pointer is NULL.    *)
(***************************************************************************)
NULL == <<0>>
NUL == 0

\* the strings the model draws entries and captured selections from:
\* "k: v", "ab", "a", ":"
StringPool == << <<107, 58, 32, 118>>, <<97, 98>>, <<97>>, <<58>> >>

\* strchr(s, c): position of the first occurrence of c in s, 0 if none
strchr(s, c) ==
    IF \E i \in 1..Len(s) : s[i] = c
    THEN CHOOSE i \in 1..Len(s) : s[i] = c /\ \A j \in 1..(i - 1) : s[j] # c
    ELSE 0

\* buffers[key] of the C array, 0-based; reading past num is reading a
\* freed or never assigned pointer
Garbage == <<255>>
BufferAt(buffers, key) ==
    IF key >= 0 /\ key < Len(buffers) THEN buffers[key + 1] ELSE Garbage

ChosenString(buffers, separator, key) ==
    IF key = -1 THEN NULL
    ELSE IF separator = NUL THEN BufferAt(buffers, key)
    ELSE LET s == BufferAt(buffers, key)
             start == strchr(s, separator)
         IN  IF start # 0 THEN SubSeq(s, start + 1, Len(s)) ELSE s

keyindex(k) ==
    IF k >= 49 /\ k <= 57 THEN k - 49
    ELSE IF k >= 97 /\ k <= 122 THEN k - 97 + 9
    ELSE -1

(***************************************************************************)
(* Wall clock: struct timeval.                                             *)
(***************************************************************************)
Timeval(s, u) == [tv_sec |-> s, tv_usec |-> u]

\* the time d microseconds after tv
TimeAfter(tv, d) ==
    LET total == tv.tv_usec + d
    IN  Timeval(tv.tv_sec + (total \div 1000000), total % 1000000)

Micros(tv) == tv.tv_sec * 1000000 + tv.tv_usec

\* ShortTime(&last, interval, store) with gettimeofday returning now:
\* the value returned and the new value of *last.
\* Variant: the seconds of *last are reset whatever they are
ShortTimeMutNoGuard(last, now, ival, store) ==
    LET l1 == [last EXCEPT !.tv_sec = now.tv_sec - 2]
        ret == now.tv_usec + 1000000 * (now.tv_sec - l1.tv_sec)
                   <= l1.tv_usec + ival
    IN  [ret |-> ret, last |-> IF store THEN now ELSE l1]

\* the comparison made strict
ShortTimeMutStrict(last, now, ival, store) ==
    LET l1 == IF now.tv_sec >= last.tv_sec + 2
              THEN [last EXCEPT !.tv_sec = now.tv_sec - 2]
              ELSE last
        ret == now.tv_usec + 1000000 * (now.tv_sec - l1.tv_sec)
                   < l1.tv_usec + ival
    IN  [ret |-> ret, last |-> IF store THEN now ELSE l1]

\* the seconds left out of the comparison
ShortTimeMutNoCarry(last, now, ival, store) ==
    LET l1 == IF now.tv_sec >= last.tv_sec + 2
              THEN [last EXCEPT !.tv_sec = now.tv_sec - 2]
              ELSE last
        ret == now.tv_usec <= l1.tv_usec + ival
    IN  [ret |-> ret, last |-> IF store THEN now ELSE l1]

ShortTime(last, now, ival, store) ==
    LET l1 == IF now.tv_sec >= last.tv_sec + 2
              THEN [last EXCEPT !.tv_sec = now.tv_sec - 2]
              ELSE last
        ret == now.tv_usec + 1000000 * (now.tv_sec - l1.tv_sec)
                   <= l1.tv_usec + ival
    IN  [ret |-> ret, last |-> IF store THEN now ELSE l1]

(***************************************************************************)
(* The X display: events, requests and the state the server keeps for the  *)
(* two windows of the program (w, the menu; f, the flash window).          *)
(***************************************************************************)
\* line height of the font (ascent + descent) and width of the menu, pixels
il == 20
width == 400

NoRequest ==
    [id |-> 0, requestor |-> "None", selection |-> "None", target |-> "None",
     property |-> "None", time |-> CurrentTime]

\* an XEvent; the fields a type does not use keep these values.  Field by
\* is history, kept in cur only: what mapped the menu last, the hotkey
\* ("key") or a request that was stored ("paste")
Event(type, window) ==
    [type |-> type, window |-> window, req |-> NoRequest, k |-> 0,
     xb |-> 0, yb |-> 0, property |-> "None", value |-> NULL, by |-> "None"]

\* a request the program sends to the server (or a call of the helper)
Call(op) ==
    [op |-> op, id |-> 0, window |-> "None", selection |-> "None",
     target |-> "None", property |-> "None", time |-> CurrentTime,
     type |-> "None", format |-> 0, data |-> NULL, own |-> CurrentTime,
     ret |-> 0]

Issue(d, call) == [d EXCEPT !.out = Append(@, call)]

Enqueue(d, evs) == [d EXCEPT !.queue = @ \o evs]

Mapped(d, win) == IF win = "w" THEN d.wmapped ELSE d.fmapped

\* XMapRaised: mapping an unmapped window generates MapNotify and Expose
XMapRaised(d, win) ==
    LET d1 == Issue(d, [Call("MapRaised") EXCEPT !.window = win])
    IN  IF Mapped(d1, win) THEN d1
        ELSE Enqueue(IF win = "w" THEN [d1 EXCEPT !.wmapped = TRUE]
                                  ELSE [d1 EXCEPT !.fmapped = TRUE],
                     << Event("MapNotify", win), Event("Expose", win) >>)

\* XUnmapWindow: unmapping a mapped window generates UnmapNotify; the
\* server releases a pointer grab on it and reverts the focus (RevertToNone)
XUnmapWindow(d, win) ==
    LET d1 == Issue(d, [Call("UnmapWindow") EXCEPT !.window = win])
    IN  IF ~ Mapped(d1, win) THEN d1
        ELSE IF win = "w"
        THEN Enqueue([d1 EXCEPT !.wmapped = FALSE, !.grab = FALSE,
                                !.focus = IF @ = "w" THEN "None" ELSE @],
                     << Event("UnmapNotify", win) >>)
        ELSE Enqueue([d1 EXCEPT !.fmapped = FALSE],
                     << Event("UnmapNotify", win) >>)

\* XClearArea(d, w, 0, 0, 0, 0, True): an Expose if the window is viewable
XClearArea(d, win) ==
    LET d1 == Issue(d, [Call("ClearArea") EXCEPT !.window = win])
    IN  IF Mapped(d1, win) THEN Enqueue(d1, << Event("Expose", win) >>) ELSE d1

\* XSetInputFocus: BadMatch if the window is not viewable (the default
\* error handler of Xlib then ends the program)
XSetInputFocus(d, win) ==
    LET d1 == Issue(d, [Call("SetInputFocus") EXCEPT !.window = win])
    IN  IF win \in {"w", "f"} /\ ~ Mapped(d1, win)
        THEN [d1 EXCEPT !.xerror = TRUE]
        ELSE [d1 EXCEPT !.focus = win]

\* XGrabPointer(d, w, ...): GrabNotViewable if the window is not viewable
XGrabPointer(d, win) ==
    LET d1 == Issue(d, [Call("GrabPointer") EXCEPT !.window = win])
    IN  IF Mapped(d1, win) THEN [d1 EXCEPT !.grab = TRUE] ELSE d1

\* Variant of XUngrabPointer: the request is not made
XUngrabPointerMutNone(d) == d

XUngrabPointer(d) ==
    [Issue(d, Call("UngrabPointer")) EXCEPT !.grab = FALSE]

\* XSetSelectionOwner(d, XA_PRIMARY, win, CurrentTime)
XSetSelectionOwner(d, win) ==
    [Issue(d, [Call("SetSelectionOwner") EXCEPT !.window = win])
        EXCEPT !.owner = win]

\* XConvertSelection(d, XA_PRIMARY, XA_STRING, XA_PRIMARY, w, CurrentTime)
XConvertSelection(d) ==
    [Issue(d, [Call("ConvertSelection") EXCEPT !.window = "w",
                   !.selection = "PRIMARY", !.target = "STRING",
                   !.property = "PRIMARY"])
        EXCEPT !.conv = @ + 1]

\* XChangeProperty on a window of another client; BadAtom if the property
\* is None
XChangeProperty(d, re, property, type, format, data, own) ==
    LET d1 == Issue(d, [Call("ChangeProperty") EXCEPT !.id = re.id,
                    !.window = re.requestor, !.property = property,
                    !.type = type, !.format = format, !.data = data,
                    !.time = re.time, !.own = own])
    IN  IF property = "None" THEN [d1 EXCEPT !.xerror = TRUE] ELSE d1

\* XSendEvent of a SelectionNotify
XSendEvent(d, id, ne) ==
    Issue(d, [Call("SendEvent") EXCEPT !.id = id, !.window = ne.requestor,
                  !.selection = ne.selection, !.target = ne.target,
                  !.property = ne.property, !.time = ne.time])

XTestFakeButtonEvent(d, press) ==
    Issue(d, [Call("FakeButton") EXCEPT !.format = IF press THEN 1 ELSE 0])

XWarpPointer(d) == Issue(d, Call("WarpPointer"))

\* GetTimestampForNow: the server time of the PropertyNotify that answers a
\* zero-length append; the server clock has advanced since the last one
GetTimestampForNow(d) == [d |-> [d EXCEPT !.stime = @ + 1], time |-> d.stime + 1]

(***************************************************************************)
(* Answering a selection request.                                          *)
(***************************************************************************)
RefuseSelection(d, re) ==
    XSendEvent(d, re.id,
        [requestor |-> re.requestor, selection |-> re.selection,
         target |-> re.target, property |-> "None", time |-> re.time])

UnsupportedSelection(type, stringonly) ==
    IF type = "STRING" THEN FALSE
    ELSE IF type = "TARGETS" THEN FALSE
    ELSE IF ~ stringonly /\ type = "UTF8_STRING" THEN FALSE
    ELSE TRUE

\* the list of targets SendSelection stores for a TARGETS request.
\* Variant: UTF8_STRING is left out
TargetListMutStringOnly(stringonly) == << "STRING" >>

TargetList(stringonly) ==
    IF stringonly THEN << "STRING" >> ELSE << "STRING", "UTF8_STRING" >>

\* the property SendSelection names in the notification.
\* Variant: the property of the request, also when it is None
ReplyPropertyMutRequest(re) == re.property

ReplyProperty(re) ==
    IF re.property # "None" THEN re.property ELSE "_XT_SELECTION_1"

\* the last part of SendSelection: store the selection or the targets,
\* then send the notification.
\* Variant: the notification is sent first
StoreAndNotifyMutNotifyFirst(d, own, re, chars, stringonly) ==
    LET property == ReplyProperty(re)
        d1 == XSendEvent(d, re.id,
                  [requestor |-> re.requestor, selection |-> re.selection,
                   target |-> re.target, property |-> property,
                   time |-> re.time])
    IN  IF re.target = "TARGETS"
        THEN XChangeProperty(d1, re, re.property, "ATOM", 32,
                             TargetList(stringonly), own)
        ELSE XChangeProperty(d1, re, property, re.target, 8, chars, own)

StoreAndNotify(d, own, re, chars, stringonly) ==
    LET property == ReplyProperty(re)
        d1 == IF re.target = "TARGETS"
              THEN XChangeProperty(d, re, re.property, "ATOM", 32,
                                   TargetList(stringonly), own)
              ELSE XChangeProperty(d, re, property, re.target, 8, chars, own)
    IN  XSendEvent(d1, re.id,
            [requestor |-> re.requestor, selection |-> re.selection,
             target |-> re.target, property |-> property, time |-> re.time])

\* Variant of SendSelection: the time of the request is not looked at
SendSelectionMutNoTime(d, own, re, chars, stringonly) ==
    IF UnsupportedSelection(re.target, stringonly)
    THEN RefuseSelection(d, re)
    ELSE StoreAndNotify(d, own, re, chars, stringonly)

SendSelection(d, own, re, chars, stringonly) ==
    IF UnsupportedSelection(re.target, stringonly)
    THEN RefuseSelection(d, re)
    ELSE IF re.time < own /\ re.time # CurrentTime
    THEN RefuseSelection(d, re)
    ELSE StoreAndNotify(d, own, re, chars, stringonly)

\* External(d, external, test, requestor, selection): the call of the helper
\* through system(); sys is what system() returns
External(d, external, test, requestor, selection, sys) ==
    IF ~ external
    THEN [d |-> d, ret |-> 1]
    ELSE [d |-> Issue(d, [Call("External") EXCEPT
                              !.type = IF test THEN "test" ELSE "paste",
                              !.window = requestor, !.data = selection,
                              !.ret = sys]),
          ret |-> sys]

\* AnswerSelection: refuse if no string is chosen; ask the helper, and send
\* the selection if the helper does not serve the request.
\* Variant: the helper pastes also for a repeated request
AnswerSelectionMutRepeat(d, own, re, selection, stringonly, external, repeated, sys) ==
    IF selection = NULL
    THEN RefuseSelection(d, re)
    ELSE LET probe == External(d, external, TRUE, re.requestor, selection, sys)
         IN  IF probe.ret # 0
             THEN SendSelection(probe.d, own, re, selection, stringonly)
             ELSE External(RefuseSelection(probe.d, re), external, FALSE,
                           re.requestor, selection, sys).d

AnswerSelection(d, own, re, selection, stringonly, external, repeated, sys) ==
    IF selection = NULL
    THEN RefuseSelection(d, re)
    ELSE LET probe == External(d, external, TRUE, re.requestor, selection, sys)
         IN  IF probe.ret # 0
             THEN SendSelection(probe.d, own, re, selection, stringonly)
             ELSE LET d1 == RefuseSelection(probe.d, re)
                  IN  IF repeated THEN d1
                      ELSE External(d1, external, FALSE, re.requestor,
                                    selection, sys).d

\* RequestPrimarySelection: FALSE if there is no owner or the owner is w
\* Variant: the selection is asked also when the owner is w
RequestPrimarySelectionMutSelf(d) ==
    IF d.owner = "None" THEN [d |-> d, ret |-> FALSE]
    ELSE [d |-> XConvertSelection(d), ret |-> TRUE]

RequestPrimarySelection(d) ==
    IF d.owner = "None" THEN [d |-> d, ret |-> FALSE]
    ELSE IF d.owner = "w" THEN [d |-> d, ret |-> FALSE]
    ELSE [d |-> XConvertSelection(d), ret |-> TRUE]

\* AcquirePrimarySelection: ret is TRUE on failure; time is the new *t
\* Variant: the ownership is not asked for
AcquirePrimarySelectionMutNone(d, own) == [d |-> d, ret |-> FALSE, time |-> own]

AcquirePrimarySelection(d, own) ==
    LET d1 == XSetSelectionOwner(d, "w")
    IN  IF d1.owner # "w"
        THEN [d |-> d1, ret |-> TRUE, time |-> own]
        ELSE LET ts == GetTimestampForNow(d1)
             IN  [d |-> Issue(ts.d, [Call("DeleteProperty") EXCEPT
                                       !.window = "r",
                                       !.property = "CUT_BUFFER0"]),
                  ret |-> FALSE, time |-> ts.time]

(***************************************************************************)
(* State of the program: the local variables of main(), the display, and   *)
(* the history the properties are stated on.                               *)
(***************************************************************************)
VARIABLES
    opt,        \* the options: daemon, continuous, immediate, click, force,
                \* f1, f2, f5, external (a helper is given)
    separator,  \* the label separator, NUL for none
    buffers,    \* the stored strings; num is their number
    pending, showing, firefox, chosen, openbykey,
    exitnext, stayinloop,
    prev,       \* focus window saved when the menu was opened
    sfocus,     \* focus window restored at the last unmap
    key,        \* index of the chosen string, -1 for none
    selected,   \* the cursor of the menu, -1 for none
    request,    \* the stored selection request
    last,       \* time of the last answer
    t,          \* timestamp of the selection ownership
    hide,       \* microseconds the flash window stays up
    message,    \* message shown in the flash window
    now,        \* the wall clock, as last read
    dpy,        \* the display
    status,     \* "running", or how the process ended
    cur,        \* the event taken by the last iteration of the loop
    reqs,       \* every selection request sent to the program so far
    nuser,      \* key presses and button releases so far
    ncapt,      \* answered conversions so far
    boot        \* the instances of the program that are starting

vars ==
    << opt, separator, buffers, pending, showing, firefox, chosen, openbykey,
       exitnext, stayinloop, prev, sfocus, key, selected, request, last, t,
       hide, message, now, dpy, status, cur, reqs, nuser, ncapt, boot >>

num == Len(buffers)
daemon == opt.daemon
continuous == opt.continuous
immediate == opt.immediate
click == opt.click
force == opt.force
external == opt.external

\* the options after getopt, for a command line; sep is the argument of -t,
\* NUL when -t is not given
Options(d, c, i, p, f, k1, k2, k5, e, sep) ==
    [daemon |-> d \/ c \/ f \/ k1 \/ k2 \/ k5, continuous |-> c,
     immediate |-> i, click |-> ~ p, force |-> f, f1 |-> f \/ k1,
     f2 |-> k2, f5 |-> k5, external |-> e, sep |-> sep]

\* command lines: the options, and the argument of -t (NUL when -t is not
\* given)
Cmd(d, c, i, p, f, k1, k2, k5, e, sep) ==
    [o |-> Options(d, c, i, p, f, k1, k2, k5, e, sep), sep |-> sep]

\* multiselect STRING...
CmdPlain == Cmd(FALSE, FALSE, FALSE, FALSE, FALSE, FALSE, FALSE, FALSE, FALSE, NUL)
\* multiselect -t : STRING...
CmdClick == Cmd(FALSE, FALSE, FALSE, FALSE, FALSE, FALSE, FALSE, FALSE, FALSE, 58)
\* multiselect -p -t : STRING...
CmdPaste == Cmd(FALSE, FALSE, FALSE, TRUE, FALSE, FALSE, FALSE, FALSE, FALSE, 58)
\* multiselect -c -p -k F1 -t : STRING...
CmdContinuous == Cmd(FALSE, TRUE, FALSE, TRUE, FALSE, TRUE, FALSE, FALSE, FALSE, 58)
\* multiselect -d -p -t : STRING...
CmdDaemonPaste == Cmd(TRUE, FALSE, FALSE, TRUE, FALSE, FALSE, FALSE, FALSE, FALSE, 58)
\* multiselect -e HELPER -t : STRING...
CmdExternal == Cmd(FALSE, FALSE, FALSE, FALSE, FALSE, FALSE, FALSE, FALSE, TRUE, 58)
\* multiselect -p -e HELPER -t : STRING...
CmdExternalPaste == Cmd(FALSE, FALSE, FALSE, TRUE, FALSE, FALSE, FALSE, FALSE, TRUE, 58)
\* multiselect -i -k F1 -k F2 -k F5 -t : STRING...
CmdImmediate == Cmd(FALSE, FALSE, TRUE, FALSE, FALSE, TRUE, TRUE, TRUE, FALSE, 58)

\* multiselect -f -t : STRING...
CmdForce == Cmd(FALSE, FALSE, FALSE, FALSE, TRUE, FALSE, FALSE, FALSE, FALSE, 58)
\* multiselect -f -p -t : STRING...
CmdForcePaste == Cmd(FALSE, FALSE, FALSE, TRUE, TRUE, FALSE, FALSE, FALSE, FALSE, 58)

\* what an uninitialized char may hold
UninitChars == {NUL, 58}

\* the strings given on the command line or on standard input; the loops
\* that load them stop at MAXNUM
Repeat(str, n) == [i \in 1..n |-> str]
\* Variant of Loaded: every string given is stored
LoadedMutAll(args) == args
Loaded(args) == SubSeq(args, 1, IF Len(args) < MAXNUM THEN Len(args) ELSE MAXNUM)

\* the display when main() reaches the main loop: ownership requested or
\* acquired, the flash window mapped
FreshDisplay(owner) ==
    [queue |-> <<>>, wmapped |-> FALSE, fmapped |-> FALSE, owner |-> owner,
     focus |-> "A", grab |-> FALSE, stime |-> 1, conv |-> 0, out |-> <<>>,
     xerror |-> FALSE, segv |-> FALSE]

Startup(d, cont) ==
    LET rq == IF cont THEN RequestPrimarySelection(d) ELSE [d |-> d, ret |-> FALSE]
        aq == IF rq.ret THEN [d |-> rq.d, ret |-> FALSE, time |-> CurrentTime]
              ELSE AcquirePrimarySelection(rq.d, CurrentTime)
    IN  [d |-> XMapRaised(aq.d, "f"), acquired |-> ~ rq.ret, time |-> aq.time,
         fail |-> (rq.ret \/ aq.ret) /\ ~ cont]

\* what the uninitialized t and request may hold when they are read
\* before they are assigned
UninitTimes == {CurrentTime, 9}
UninitRequests ==
    { NoRequest, [NoRequest EXCEPT !.requestor = "w", !.time = 9] }

\* no other instance of the program is starting
NoBoot == [daemon |-> FALSE]

\* the state when main() enters the main loop, for a command line of cls
\* with the strings of one of lists
InitProgram(cls, lists) ==
    /\ \E cl \in cls :
          /\ opt = cl.o
          /\ separator \in (IF cl.sep # NUL THEN {cl.sep} ELSE UninitChars)
    /\ \E args \in lists : buffers = Loaded(args)
    /\ \E owner \in {"None", "other"} :
          LET st == Startup(FreshDisplay(owner), opt.continuous)
          IN  /\ dpy = [st.d EXCEPT !.out = <<>>]
              /\ t \in (IF st.acquired THEN {st.time} ELSE UninitTimes)
    /\ request \in (IF opt.daemon THEN UninitRequests ELSE {NoRequest})
    /\ sfocus \in (IF opt.force THEN {"None", "A"} ELSE {"None"})
    /\ hide = starthide
    /\ message = "None"
    /\ pending = FALSE
    /\ showing = FALSE
    /\ chosen = FALSE
    /\ openbykey = FALSE
    /\ firefox = FALSE
    /\ prev = "None"
    /\ last = Timeval(0, 0)
    /\ key = -1
    /\ selected = -1
    /\ stayinloop = TRUE
    /\ exitnext = FALSE
    /\ now = Timeval(StartSec, 0)
    /\ status = "running"
    /\ cur = Event("None", "None")
    /\ reqs = <<>>
    /\ nuser = 0
    /\ ncapt = 0

InitWith(cls, lists) == boot = NoBoot /\ InitProgram(cls, lists)

(***************************************************************************)
(* The other clients, the user and the server.                             *)
(***************************************************************************)
Running == status = "running"

\* the requests another client may send: target, property, time
RequestKinds(stime) ==
    { [target |-> "STRING", property |-> "P", time |-> CurrentTime],
      [target |-> "STRING", property |-> "P", time |-> stime],
      [target |-> "STRING", property |-> "P", time |-> stime - 1],
      [target |-> "STRING", property |-> "None", time |-> CurrentTime],
      [target |-> "UTF8_STRING", property |-> "P", time |-> stime],
      [target |-> "TARGETS", property |-> "P", time |-> stime],
      [target |-> "TARGETS", property |-> "P", time |-> stime - 1],
      [target |-> "TARGETS", property |-> "None", time |-> CurrentTime],
      [target |-> "text/x-moz-text-internal", property |-> "P", time |-> stime],
      [target |-> "TEXT", property |-> "P", time |-> stime] }

\* a client asks the owner of PRIMARY for the selection; at most max
\* requests are sent in a run
ClientRequestUpTo(kinds, max) ==
    /\ Running
    /\ dpy.owner = "w"
    /\ Len(reqs) < max
    /\ Len(dpy.queue) < MaxQueue
    /\ \E kind \in kinds, who \in {"A", "w"} :
          /\ who = "w" => kind.target \in {"STRING", "TARGETS"} /\ kind.time = CurrentTime
                          /\ kind.property = "P"
          /\ LET re == [id |-> Len(reqs) + 1, requestor |-> who,
                        selection |-> "PRIMARY", target |-> kind.target,
                        property |-> kind.property, time |-> kind.time]
             IN  /\ dpy' = Enqueue(dpy, << [Event("SelectionRequest", "w")
                                               EXCEPT !.req = re] >>)
                 /\ reqs' = Append(reqs, [req |-> re, taken |-> FALSE,
                                          arrival |-> Timeval(0, 0),
                                          calls |-> <<>>])
    /\ UNCHANGED << opt, separator, buffers, pending, showing, firefox, chosen,
                    openbykey, exitnext, stayinloop, prev, sfocus, key,
                    selected, request, last, t, hide, message, now, status,
                    cur, nuser, ncapt, boot >>

ClientRequestOf(kinds) == ClientRequestUpTo(kinds, MaxRequests)

\* the keys of the menu: 1 d q s z, the cursor keys, Return, Delete and F1
Keys ==
    { 49, 100, 113, 115, 122, XK_Up, XK_Down, XK_Return, XK_Delete, XK_F1 }

\* the keys grabbed on the root window (Ctrl+Shift+Z arrives as z)
Grabbed(k) ==
    \/ opt.f1 /\ k = XK_F1
    \/ opt.daemon /\ k = 122
    \/ opt.f2 /\ k = XK_F2
    \/ opt.f5 /\ k = XK_F5

\* the user presses a key: it reaches the program if the menu has the
\* focus or if the key is grabbed
UserKeyOf(keys, max) ==
    /\ Running
    /\ nuser < max
    /\ Len(dpy.queue) < MaxQueue
    /\ \E k \in keys :
          /\ dpy.focus = "w" \/ Grabbed(k)
          /\ dpy' = Enqueue(dpy, << [Event("KeyPress", "w") EXCEPT !.k = k] >>)
    /\ nuser' = nuser + 1
    /\ UNCHANGED << opt, separator, buffers, pending, showing, firefox, chosen,
                    openbykey, exitnext, stayinloop, prev, sfocus, key,
                    selected, request, last, t, hide, message, now, status,
                    cur, reqs, ncapt, boot >>

\* the user releases a button over the mapped menu: on the title row (over
\* the text, the V icon or the X icon), on the first or on the last of the
\* strings the menu shows when the button is released
UserButton ==
    /\ Running
    /\ nuser < MaxMenuUser
    /\ Len(dpy.queue) < MaxQueue
    /\ dpy.wmapped
    /\ \E xb \in {10, width - 2 * il, width - 5},
          row \in {-1, 0, num - 1} :
          /\ row >= -1 /\ row < num
          /\ row # -1 => xb = 10
          /\ dpy' = Enqueue(dpy, << [Event("ButtonRelease", "w") EXCEPT
                                        !.xb = xb, !.yb = il * (row + 1) + 5] >>)
    /\ nuser' = nuser + 1
    /\ UNCHANGED << opt, separator, buffers, pending, showing, firefox, chosen,
                    openbykey, exitnext, stayinloop, prev, sfocus, key,
                    selected, request, last, t, hide, message, now, status,
                    cur, reqs, ncapt, boot >>

\* another client becomes the owner of PRIMARY; the program is told with a
\* SelectionClear if it was the owner
OtherOwns ==
    /\ Running
    /\ dpy.owner # "other"
    /\ Len(dpy.queue) < MaxQueue
    /\ dpy' = IF dpy.owner = "w"
              THEN Enqueue([dpy EXCEPT !.owner = "other"],
                           << Event("SelectionClear", "w") >>)
              ELSE [dpy EXCEPT !.owner = "other"]
    /\ UNCHANGED << opt, separator, buffers, pending, showing, firefox, chosen,
                    openbykey, exitnext, stayinloop, prev, sfocus, key,
                    selected, request, last, t, hide, message, now, status,
                    cur, reqs, nuser, ncapt, boot >>

\* a conversion asked by the program is answered: refused (property None),
\* or stored in property PRIMARY of w as a string or as another type
OwnerAnswers ==
    /\ Running
    /\ dpy.conv > 0
    /\ Len(dpy.queue) < MaxQueue
    /\ \/ /\ dpy' = Enqueue([dpy EXCEPT !.conv = @ - 1],
                            << Event("SelectionNotify", "w") >>)
          /\ ncapt' = ncapt
       \/ /\ ncapt < MaxCaptures
          /\ ncapt' = ncapt + 1
          /\ \E value \in {StringPool[2], NULL} :
                dpy' = Enqueue([dpy EXCEPT !.conv = @ - 1],
                               << [Event("SelectionNotify", "w") EXCEPT
                                      !.property = "PRIMARY", !.value = value] >>)
    /\ UNCHANGED << opt, separator, buffers, pending, showing, firefox, chosen,
                    openbykey, exitnext, stayinloop, prev, sfocus, key,
                    selected, request, last, t, hide, message, now, status,
                    cur, reqs, nuser, boot >>

(***************************************************************************)
(* The main loop.  An iteration takes the first event of the queue; the    *)
(* body of each case is a function from the values of the local variables  *)
(* before it (a record p, with the display p.d) to their values after it.  *)
(***************************************************************************)
Locals ==
    [buffers |-> buffers, pending |-> pending, showing |-> showing,
     firefox |-> firefox, chosen |-> chosen, openbykey |-> openbykey,
     exitnext |-> exitnext, stayinloop |-> stayinloop, prev |-> prev,
     sfocus |-> sfocus, key |-> key, selected |-> selected,
     request |-> request, last |-> last, t |-> t, hide |-> hide,
     message |-> message, now |-> now,
     keep |-> FALSE, changed |-> FALSE,  \* assigned by every KeyPress
     fail |-> FALSE,                     \* main returns EXIT_FAILURE
     path |-> "none",                    \* the branch the iteration takes
     d |-> [dpy EXCEPT !.queue = Tail(@), !.out = <<>>]]

\* the time elapsed between two readings of the clock by the main loop:
\* the longest that is still a short time, or twice as long
Deltas == {interval, 2 * interval}

\* what system() returns for the helper
SysResults == IF external THEN {0, 256} ELSE {0}

\* the % of C: the sign of the result is the sign of a.
\* Variant: no wrapping, the value is brought back within 0..b-1
CModMutNoWrap(a, b) == IF a - b >= b THEN b - 1 ELSE IF a < b THEN 0 ELSE a - b

CMod(a, b) == IF a >= 0 THEN a % b ELSE 0 - ((0 - a) % b)

\* case ShowWindow: save the focus window, map the menu.
\* Variant: the menu is not mapped
ShowWindowMutNoMap(p) == p

ShowWindow(p) ==
    LET pprev == p.d.focus
    IN  [p EXCEPT !.prev = IF p.prev = "None" /\ pprev # "w" THEN pprev ELSE @,
                  !.d = XMapRaised(p.d, "w")]

\* case SelectionRequest, second request from firefox: the answer is
\* repeated and the flag cleared.
\* Variant: the flag is left set
AnswerFirefoxMutKeep(p, re, selection, tm, sys) ==
    [p EXCEPT !.d = AnswerSelection(p.d, p.t, re, selection, FALSE,
                                    external, TRUE, sys),
              !.last = ShortTime(p.last, tm, interval, TRUE).last,
              !.path = "firefox"]

AnswerFirefox(p, re, selection, tm, sys) ==
    [p EXCEPT !.d = AnswerSelection(p.d, p.t, re, selection, FALSE,
                                    external, TRUE, sys),
              !.firefox = FALSE,
              !.last = ShortTime(p.last, tm, interval, TRUE).last,
              !.path = "firefox"]

\* case SelectionRequest, a string was chosen: the request that follows the
\* middle click is answered and the choice is used up.
\* Variant: the choice is left standing
AnswerChosenMutKeep(p, re, selection, tm, sys) ==
    [p EXCEPT !.d = AnswerSelection(p.d, p.t, re, selection, FALSE,
                                    external, FALSE, sys),
              !.pending = FALSE,
              !.last = ShortTime(p.last, tm, interval, TRUE).last,
              !.path = "chosen"]

AnswerChosen(p, re, selection, tm, sys) ==
    [p EXCEPT !.chosen = FALSE,
              !.d = AnswerSelection(p.d, p.t, re, selection, FALSE,
                                    external, FALSE, sys),
              !.pending = FALSE,
              !.last = ShortTime(p.last, tm, interval, TRUE).last,
              !.path = "chosen"]

\* case SelectionRequest, request for TARGETS: the list of targets is sent
\* and nothing else is done.
\* Variant: the time of the answer is stored in last
AnswerTargetsMutLast(p, re) ==
    [p EXCEPT !.d = SendSelection(p.d, p.t, re, NULL, FALSE),
              !.last = p.now,
              !.path = "targets"]

AnswerTargets(p, re) ==
    [p EXCEPT !.d = SendSelection(p.d, p.t, re, NULL, FALSE),
              !.path = "targets"]

\* case SelectionRequest; tm is the time of day, sys the answer of the helper
SelectionRequestCase(p, re, tm, sys) ==
    LET selection == ChosenString(p.buffers, separator, p.key)
        p0 == [p EXCEPT !.now = tm]
    IN  IF re.requestor = "w"
        THEN [p0 EXCEPT !.d = RefuseSelection(p.d, re), !.path = "self"]
        ELSE IF re.target = "TARGETS"
        THEN AnswerTargets(p0, re)
        ELSE LET p1 == [p0 EXCEPT !.firefox =
                           @ \/ (~ click /\ re.target = "text/x-moz-text-internal")]
             IN  IF UnsupportedSelection(re.target, FALSE)
                 THEN [p1 EXCEPT !.d = RefuseSelection(p.d, re),
                                 !.path = "unsupported"]
                 ELSE IF p1.showing
                 THEN [p1 EXCEPT !.d = RefuseSelection(p.d, re),
                                 !.path = "showing"]
                 ELSE IF p1.firefox
                 THEN AnswerFirefox(p1, re, selection, tm, sys)
                 ELSE IF click /\ p1.chosen
                 THEN AnswerChosen(p1, re, selection, tm, sys)
                 ELSE LET test == ShortTime(p.last, tm, interval, FALSE)
                      IN  IF test.ret
                          THEN [p1 EXCEPT
                                  !.d = AnswerSelection(p.d, p.t, re, selection,
                                            FALSE, external, TRUE, sys),
                                  !.last = ShortTime(test.last, tm, interval,
                                                     TRUE).last,
                                  !.path = "shorttime"]
                          ELSE ShowWindow(
                                 [p1 EXCEPT
                                    !.d = IF click THEN RefuseSelection(p.d, re)
                                          ELSE p.d,
                                    !.last = test.last,
                                    !.request = re,
                                    !.pending = TRUE,
                                    !.path = "store"])

\* Expose on the flash window: draw, sleep, unmap
FlashExposeCase(p) ==
    [p EXCEPT !.now = TimeAfter(@, p.hide),
              !.d = XUnmapWindow(p.d, "f"),
              !.message = "None",
              !.path = "flash"]

\* case Expose: draw the menu, take the focus, grab the pointer
ExposeCase(p) ==
    [p EXCEPT !.d = XGrabPointer(XSetInputFocus(p.d, "w"), "w"),
              !.path = "expose"]

\* GetSelection: the string in the property, NULL if it is not a string
GetSelection(value) == value

\* case SelectionNotify: a selection asked with RequestPrimarySelection
SelectionNotifyCase(p, e) ==
    IF e.property = "None" THEN [p EXCEPT !.path = "notify-none"]
    ELSE IF Len(p.buffers) >= MAXNUM THEN [p EXCEPT !.path = "notify-full"]
    ELSE LET got == GetSelection(e.value)
             p1 == IF got # NULL THEN [p EXCEPT !.buffers = Append(@, got)]
                   ELSE p
             aq == IF Len(p1.buffers) >= 2 \/ continuous
                   THEN AcquirePrimarySelection(p1.d, p1.t)
                   ELSE [d |-> p1.d, ret |-> FALSE, time |-> p1.t]
         IN  IF aq.ret
             THEN [p1 EXCEPT !.d = aq.d, !.fail = TRUE, !.path = "notify-fail"]
             ELSE [p1 EXCEPT
                     !.t = aq.time,
                     !.d = XMapRaised(IF p1.showing THEN XUnmapWindow(aq.d, "w")
                                      ELSE aq.d, "f"),
                     !.hide = changehide,
                     !.path = "notify"]

\* buffers without the string of index i (0-based).
\* Variant: the last string is removed
RemoveAtMutLast(b, i) == SubSeq(b, 1, Len(b) - 1)

RemoveAt(b, i) == SubSeq(b, 1, i) \o SubSeq(b, i + 2, Len(b))

\* after a key that chooses no string: the cursor stays within the list.
\* Variant: the cursor is left where it is
ClampMutNone(p) == p

Clamp(p) ==
    IF p.selected >= Len(p.buffers)
    THEN [p EXCEPT !.selected = Len(p.buffers) - 1]
    ELSE p

\* the end of case KeyPress: keep the menu open, or unmap it and show the
\* flash window if the list changed.
\* Variant: the flash window is not shown
AfterKeyMutNoFlash(p) ==
    IF p.keep THEN p ELSE [p EXCEPT !.d = XUnmapWindow(p.d, "w")]

AfterKey(p) ==
    IF p.keep THEN p
    ELSE LET p1 == [p EXCEPT !.d = XUnmapWindow(p.d, "w")]
         IN  IF ~ p1.changed \/ p1.exitnext \/ ~ p1.stayinloop THEN p1
             ELSE [p1 EXCEPT !.hide = changehide,
                             !.d = XMapRaised(p1.d, "f")]

\* keys q and F5: end the loop now, or at the unmap of the menu if it is
\* shown.
\* Variant: the loop is not ended
QuitMutStay(p) == p

Quit(p) ==
    [p EXCEPT !.exitnext = IF p.showing THEN TRUE ELSE @,
              !.stayinloop = IF p.showing THEN @ ELSE FALSE]

\* the inner switch of case KeyPress, for a key that chooses no string
KeySwitch(p, k) ==
    IF k \in {122, XK_F2}
    THEN IF Len(p.buffers) >= MAXNUM THEN [p EXCEPT !.path = "add-full"]
         ELSE LET rq == RequestPrimarySelection(p.d)
              IN  IF ~ rq.ret
                  THEN [p EXCEPT !.d = rq.d, !.hide = messagehide,
                                 !.message = "select a string first",
                                 !.changed = TRUE, !.path = "add-none"]
                  ELSE [p EXCEPT !.d = rq.d, !.path = "add"]
    ELSE IF k \in {XK_BackSpace, XK_Delete}
    THEN IF p.selected = -1 THEN [p EXCEPT !.path = "delete-none"]
         ELSE LET b == RemoveAt(p.buffers, p.selected)
              IN  [p EXCEPT !.buffers = b,
                            !.keep = Len(b) > 0 \/ daemon,
                            !.changed = ~ (Len(b) > 0 \/ daemon),
                            !.path = "delete"]
    ELSE IF k \in {115, XK_F3}
    THEN [p EXCEPT !.buffers = IF Len(@) > 0 THEN SubSeq(@, 1, Len(@) - 1)
                               ELSE @,
                   !.keep = daemon, !.changed = ~ daemon,
                   !.path = "delete-last"]
    ELSE IF k \in {113, XK_F5}
    THEN [Quit(p) EXCEPT !.buffers = <<>>, !.changed = TRUE, !.path = "quit"]
    ELSE IF k \in {100, XK_F4}
    THEN [p EXCEPT !.buffers = <<>>, !.changed = TRUE, !.path = "delete-all"]
    ELSE [p EXCEPT !.path = "other-key"]

\* the test of case KeyPress for a key that picks a string: its index is
\* within the list, and the stored request is not of the program itself.
\* Variant: the index is not compared with the length of the list
KeyPicksMutNoBound(k, n, requestor) == k >= 0 /\ requestor # "w"

KeyPicks(k, n, requestor) == k >= 0 /\ k < n /\ requestor # "w"

\* case KeyPress
KeyPressCase(p, k) ==
    LET p0 == [p EXCEPT !.key = keyindex(k), !.keep = FALSE,
                        !.changed = FALSE]
        n == Len(p.buffers)
    IN  IF KeyPicks(p0.key, n, p.request.requestor)
        THEN AfterKey([p0 EXCEPT !.path = "pick"])
        ELSE IF k \in {XK_Up, XK_Down}
        THEN IF n = 0 THEN [p0 EXCEPT !.path = "cursor-empty"]
             ELSE LET sel == CMod(p.selected + (IF k = XK_Up THEN -1 ELSE 1) + n, n)
                  IN  IF immediate
                      THEN AfterKey([p0 EXCEPT !.selected = sel, !.key = sel,
                                               !.path = "cursor-pick"])
                      ELSE [p0 EXCEPT !.selected = sel,
                                      !.d = XClearArea(p.d, "w"),
                                      !.path = "cursor"]
        ELSE IF k \in {XK_Return, XK_KP_Enter}
        THEN IF n = 0 \/ p.selected = -1 THEN [p0 EXCEPT !.path = "return-none"]
             ELSE AfterKey([p0 EXCEPT !.key = p.selected, !.path = "return"])
        ELSE AfterKey(Clamp(KeySwitch([p0 EXCEPT !.key = -1], k)))

\* case ButtonRelease
ButtonReleaseCase(p, e) ==
    LET p0 == [p EXCEPT !.key = (e.yb \div il) - 1]
        onV == e.xb >= width - 6 - 2 * il /\ e.xb <= width - il - 3
                   /\ ~ p.pending
        onX == e.xb >= width - il
    IN  IF p0.key = -1 /\ onV /\ Len(p.buffers) >= MAXNUM
        THEN [p0 EXCEPT !.path = "button-full"]
        ELSE LET p1 == IF p0.key = -1 /\ onV
                       THEN [p0 EXCEPT !.d = RequestPrimarySelection(p.d).d]
                       ELSE p0
                 p2 == IF p0.key = -1 /\ onX
                       THEN [p1 EXCEPT !.exitnext = TRUE]
                       ELSE p1
             IN  [p2 EXCEPT !.d = XUnmapWindow(p2.d, e.window),
                            !.path = "button"]

\* case UnmapNotify; sys and sys2 are the answers of the helper to the two
\* probes; segv tells whether the helper call made with a null selection
\* (strlen of a null pointer) ends the process
UnmapNotifyCase(p, e, tm, sys, sys2, segv) ==
    LET p0 == IF p.prev = "None" THEN p
              ELSE [p EXCEPT !.d = XSetInputFocus(p.d, p.prev),
                             !.sfocus = p.prev,
                             !.prev = IF e.window = "w" THEN "None" ELSE @]
    IN  IF e.window = "f" /\ Len(p0.buffers) = 0 /\ ~ daemon
        THEN [p0 EXCEPT !.stayinloop = FALSE, !.path = "unmap-empty"]
        ELSE LET p1 == [p0 EXCEPT !.d = XUngrabPointer(p0.d)]
             IN  IF p1.exitnext
                 THEN [p1 EXCEPT !.stayinloop = FALSE, !.path = "unmap-exit"]
                 ELSE IF e.window # "w" THEN [p1 EXCEPT !.path = "unmap-flash"]
                 ELSE LET p2 == [p1 EXCEPT !.showing = FALSE]
                          bykey == p2.openbykey /\ force
                      IN  IF ~ p2.pending /\ ~ bykey
                          THEN [p2 EXCEPT !.path = "unmap-idle"]
                          ELSE
    LET p3 == [p2 EXCEPT !.now = tm,
                         !.last = ShortTime(p2.last, tm, interval, TRUE).last]
        dest == IF bykey THEN p3.sfocus ELSE p3.request.requestor
        selection == ChosenString(p3.buffers, separator, p3.key)
        nullcall == click /\ external /\ selection = NULL
        probe == IF click
                 THEN External(p3.d, external, TRUE, dest, selection, sys)
                 ELSE [d |-> p3.d, ret |-> 0]
    IN  IF nullcall /\ segv
        THEN [p3 EXCEPT !.d = [probe.d EXCEPT !.segv = TRUE],
                        !.path = "unmap-segv"]
        ELSE IF ~ click \/ probe.ret = 0
        THEN LET rq == IF bykey
                       THEN [p3.request EXCEPT !.id = 0,
                                               !.requestor = p3.sfocus,
                                               !.target = "STRING",
                                               !.property = "None"]
                       ELSE p3.request
             IN  [p3 EXCEPT !.request = rq,
                            !.d = AnswerSelection(probe.d, p3.t, rq, selection,
                                      FALSE, external, FALSE, sys2),
                            !.sfocus = "None",
                            !.pending = FALSE,
                            !.openbykey = FALSE,
                            !.path = "unmap-answer"]
        ELSE IF p3.key # -1
        THEN [p3 EXCEPT !.chosen = TRUE,
                        !.d = XTestFakeButtonEvent(
                                  XTestFakeButtonEvent(XWarpPointer(probe.d),
                                                       TRUE), FALSE),
                        !.pending = TRUE,
                        !.openbykey = FALSE,
                        !.path = "unmap-click"]
        ELSE [p3 EXCEPT !.d = probe.d, !.openbykey = FALSE,
                        !.path = "unmap-cancel"]

\* case SelectionClear
SelectionClearCase(p) ==
    LET p1 == [p EXCEPT !.d = XUngrabPointer(p.d)]
    IN  IF p1.exitnext THEN [p1 EXCEPT !.path = "clear-exitnext"]
        ELSE IF ~ daemon
        THEN [p1 EXCEPT !.stayinloop = FALSE, !.path = "clear-exit"]
        ELSE IF ~ continuous THEN [p1 EXCEPT !.path = "clear-daemon"]
        ELSE IF Len(p1.buffers) >= MAXNUM THEN [p1 EXCEPT !.path = "clear-full"]
        ELSE LET rq == RequestPrimarySelection(p1.d)
             IN  IF ~ rq.ret
                 THEN [p1 EXCEPT !.hide = messagehide,
                                 !.message = "select a string first",
                                 !.d = XMapRaised(rq.d, "f"),
                                 !.path = "clear-none"]
                 ELSE [p1 EXCEPT !.d = rq.d, !.path = "clear-request"]

\* case MapNotify
MapNotifyCase(p, e) ==
    [p EXCEPT !.showing = IF e.window = "w" THEN TRUE ELSE @,
              !.path = "map"]

(***************************************************************************)
(* One iteration of the main loop.                                         *)
(***************************************************************************)
\* XCloseDisplay or the end of the process: the server destroys the
\* windows of the program and forgets its ownership
CloseDisplay(d) ==
    [d EXCEPT !.queue = <<>>, !.wmapped = FALSE, !.fmapped = FALSE,
              !.grab = FALSE, !.conv = 0,
              !.owner = IF @ = "w" THEN "None" ELSE @,
              !.focus = IF @ = "w" THEN "None" ELSE @]

\* the calls of out made for request i
CallsFor(out, i) ==
    LET ForI(c) == c.id = i IN SelectSeq(out, ForI)

\* the history of the requests after an iteration that took event e at time
\* tm and made the calls out
Logged(rq, e, tm, out) ==
    [i \in DOMAIN rq |->
        [rq[i] EXCEPT
            !.taken = @ \/ (e.type = "SelectionRequest" /\ e.req.id = i),
            !.arrival = IF e.type = "SelectionRequest" /\ e.req.id = i
                        THEN tm ELSE @,
            !.calls = @ \o CallsFor(out, i)]]

\* the end of main: disown the selection, destroy the window, close
Leave(d) == CloseDisplay(XSetSelectionOwner(d, "None"))

\* the values of the locals become the state; the loop ends if stayinloop
\* is false, and the process ends on an X error or a fault
Commit(locals) ==
  \E p \in {locals} :
    LET e == Head(dpy.queue)
        dead == p.d.xerror \/ p.d.segv
        d1 == IF dead \/ p.fail THEN CloseDisplay(p.d)
              ELSE IF ~ p.stayinloop THEN Leave(p.d)
              ELSE p.d
    IN  /\ buffers' = p.buffers
        /\ pending' = p.pending
        /\ showing' = p.showing
        /\ firefox' = p.firefox
        /\ chosen' = p.chosen
        /\ openbykey' = p.openbykey
        /\ exitnext' = p.exitnext
        /\ stayinloop' = p.stayinloop
        /\ prev' = p.prev
        /\ sfocus' = p.sfocus
        /\ key' = p.key
        /\ selected' = p.selected
        /\ request' = p.request
        /\ last' = p.last
        /\ t' = p.t
        /\ hide' = p.hide
        /\ message' = p.message
        /\ now' = p.now
        /\ dpy' = d1
        /\ status' = IF p.d.segv THEN "segv"
                     ELSE IF p.d.xerror THEN "xerror"
                     ELSE IF p.fail THEN "failure"
                     ELSE IF ~ p.stayinloop THEN "success"
                     ELSE "running"
        /\ cur' = [e EXCEPT !.type = IF e.type = "KeyPress" /\ ~ showing
                                          /\ e.k = XK_F1
                                     THEN "ShowWindow" ELSE @,
                            !.property = p.path,
                            !.by = IF p.path = "store" THEN "paste"
                                   ELSE IF p.path = "show" /\ ~ dpy.wmapped
                                   THEN "key"
                                   ELSE cur.by]
        /\ reqs' = Logged(reqs, e, p.now, d1.out)
        /\ UNCHANGED << opt, separator, nuser, ncapt, boot >>

\* XNextEvent returns an event of the given type
Next_Event(type) ==
    /\ Running
    /\ dpy.queue # <<>>
    /\ Head(dpy.queue).type = type

HandleFlashExpose ==
    /\ Next_Event("Expose")
    /\ Head(dpy.queue).window = "f"
    /\ Commit(FlashExposeCase(Locals))

\* a grabbed F1 while the menu is not shown becomes the fake event ShowWindow
HandleShowWindow ==
    /\ Next_Event("KeyPress")
    /\ ~ showing
    /\ Head(dpy.queue).k = XK_F1
    /\ Commit(ShowWindow([Locals EXCEPT !.openbykey = TRUE, !.path = "show"]))

HandleSelectionRequest ==
    /\ Next_Event("SelectionRequest")
    /\ \E delta \in Deltas, sys \in SysResults :
          Commit(SelectionRequestCase(Locals, Head(dpy.queue).req,
                                      TimeAfter(now, delta), sys))

HandleExpose ==
    /\ Next_Event("Expose")
    /\ Head(dpy.queue).window # "f"
    /\ Commit(ExposeCase(Locals))

HandleSelectionNotify ==
    /\ Next_Event("SelectionNotify")
    /\ Commit(SelectionNotifyCase(Locals, Head(dpy.queue)))

HandleKeyPress ==
    /\ Next_Event("KeyPress")
    /\ ~ (~ showing /\ Head(dpy.queue).k = XK_F1)
    /\ Commit(KeyPressCase(Locals, Head(dpy.queue).k))

HandleButtonRelease ==
    /\ Next_Event("ButtonRelease")
    /\ Commit(ButtonReleaseCase(Locals, Head(dpy.queue)))

HandleUnmapNotify ==
    /\ Next_Event("UnmapNotify")
    /\ \E delta \in Deltas, sys \in SysResults, sys2 \in SysResults,
          segv \in BOOLEAN :
          Commit(UnmapNotifyCase(Locals, Head(dpy.queue),
                                 TimeAfter(now, delta), sys, sys2, segv))

HandleSelectionClear ==
    /\ Next_Event("SelectionClear")
    /\ Commit(SelectionClearCase(Locals))

HandleMapNotify ==
    /\ Next_Event("MapNotify")
    /\ Commit(MapNotifyCase(Locals, Head(dpy.queue)))

(***************************************************************************)
(* The specification of the selection protocol: every kind of request, the *)
(* keys that pick, cancel and quit, the loss of the selection.             *)
(***************************************************************************)
ReplyCommandLines == {CmdClick, CmdPaste, CmdExternal, CmdExternalPaste}
ReplyArgLists == { SubSeq(StringPool, 1, 2) }
ReplyKeys == {49, 120, 113}

Init == InitWith(ReplyCommandLines, ReplyArgLists)

ClientRequest == ClientRequestOf(RequestKinds(dpy.stime))

UserKey == UserKeyOf(ReplyKeys, MaxUser)

Next ==
    \/ ClientRequest
    \/ UserKey
    \/ OtherOwns
    \/ HandleFlashExpose
    \/ HandleSelectionRequest
    \/ HandleExpose
    \/ HandleKeyPress
    \/ HandleUnmapNotify
    \/ HandleSelectionClear
    \/ HandleMapNotify

Spec == Init /\ [][Next]_vars

(***************************************************************************)
(* The specification of the list: the keys and the buttons of the menu,    *)
(* the selections of other clients, lists that are empty, short, almost    *)
(* full and longer than the program stores.                                *)
(***************************************************************************)
MenuCommandLines == {CmdContinuous, CmdImmediate}
MenuArgLists ==
    { <<>>, SubSeq(StringPool, 1, 1), Repeat(StringPool[3], MAXNUM - 1),
      Repeat(StringPool[3], MAXNUM + 1) }
InitMenu == InitWith(MenuCommandLines, MenuArgLists)

UserKeyMenu == UserKeyOf(Keys, MaxMenuUser)

NextMenu ==
    \/ UserKeyMenu
    \/ UserButton
    \/ OtherOwns
    \/ OwnerAnswers
    \/ HandleFlashExpose
    \/ HandleShowWindow
    \/ HandleExpose
    \/ HandleSelectionNotify
    \/ HandleKeyPress
    \/ HandleButtonRelease
    \/ HandleUnmapNotify
    \/ HandleSelectionClear
    \/ HandleMapNotify

SpecMenu == InitMenu /\ [][NextMenu]_vars

(***************************************************************************)
(* The specification of the labels: strings with and without the           *)
(* separator, pasted by a program started with and without option -t.      *)
(***************************************************************************)
LabelCommandLines == {CmdPlain, CmdPaste}
LabelArgLists == { SubSeq(StringPool, 1, 2), SubSeq(StringPool, 3, 4) }
LabelKeys == {49, 50}
LabelRequestKinds ==
    { [target |-> "STRING", property |-> "P", time |-> CurrentTime] }

InitLabels == InitWith(LabelCommandLines, LabelArgLists)

ClientRequestLabels == ClientRequestOf(LabelRequestKinds)

UserKeyLabels == UserKeyOf(LabelKeys, MaxUser)

NextLabels ==
    \/ ClientRequestLabels
    \/ UserKeyLabels
    \/ HandleFlashExpose
    \/ HandleSelectionRequest
    \/ HandleExpose
    \/ HandleKeyPress
    \/ HandleUnmapNotify
    \/ HandleMapNotify

SpecLabels == InitLabels /\ [][NextLabels]_vars

(***************************************************************************)
(* The specification of the requests of firefox: a program started with    *)
(* -p, requests for STRING and for text/x-moz-text-internal, a user who    *)
(* picks the first string or cancels.                                      *)
(***************************************************************************)
FirefoxCommandLines == {CmdPaste}
FirefoxKeys == {49, 120}
FirefoxRequestKinds ==
    { [target |-> "STRING", property |-> "P", time |-> CurrentTime],
      [target |-> "text/x-moz-text-internal", property |-> "P",
       time |-> CurrentTime] }

InitFirefox == InitWith(FirefoxCommandLines, ReplyArgLists)

ClientRequestFirefox ==
    ClientRequestUpTo(FirefoxRequestKinds, MaxFirefoxRequests)

UserKeyFirefox == UserKeyOf(FirefoxKeys, MaxUser)

NextFirefox ==
    \/ ClientRequestFirefox
    \/ UserKeyFirefox
    \/ HandleFlashExpose
    \/ HandleSelectionRequest
    \/ HandleExpose
    \/ HandleKeyPress
    \/ HandleUnmapNotify
    \/ HandleMapNotify

SpecFirefox == InitFirefox /\ [][NextFirefox]_vars

(***************************************************************************)
(* The specification of the end of the program: a daemon and two programs  *)
(* that are not, pastes, a user who picks the first string or quits.  The  *)
(* main loop does not stop while events are in the queue: XNextEvent       *)
(* returns the first, and the case for it runs to its end.                 *)
(***************************************************************************)
QuitCommandLines == {CmdClick, CmdPaste, CmdDaemonPaste}
QuitKeys == {49, 113}

InitQuit == InitWith(QuitCommandLines, ReplyArgLists)

ClientRequestQuit == ClientRequestOf(LabelRequestKinds)

UserKeyQuit == UserKeyOf(QuitKeys, MaxUser)

MainLoop ==
    \/ HandleFlashExpose
    \/ HandleSelectionRequest
    \/ HandleExpose
    \/ HandleKeyPress
    \/ HandleUnmapNotify
    \/ HandleSelectionClear
    \/ HandleMapNotify

NextQuit ==
    \/ ClientRequestQuit
    \/ UserKeyQuit
    \/ OtherOwns
    \/ MainLoop

SpecQuit == InitQuit /\ [][NextQuit]_vars /\ WF_vars(MainLoop)

(***************************************************************************)
(* The specification of the empty list: a daemon and two programs that are *)
(* not, started with no string or with one, a user who deletes it from the *)
(* menu opened by a paste.  The main loop is fair as in SpecQuit.          *)
(***************************************************************************)
InitEmpty ==
    InitWith(QuitCommandLines, { <<>>, SubSeq(StringPool, 1, 1) })

NextEmpty ==
    \/ ClientRequestUpTo(LabelRequestKinds, 1)
    \/ UserKeyOf({XK_Down, XK_Delete, 115, 100}, MaxMenuUser)
    \/ OtherOwns
    \/ MainLoop

SpecEmpty == InitEmpty /\ [][NextEmpty]_vars /\ WF_vars(MainLoop)

(***************************************************************************)
(* The specification of the digit keys: lists of one and of two strings,   *)
(* a user who presses 1, 2 or 3 on the menu opened by a paste.             *)
(***************************************************************************)
InitDigits ==
    InitWith({CmdClick, CmdPaste},
             { SubSeq(StringPool, 1, 1), SubSeq(StringPool, 1, 2) })

NextDigits ==
    \/ ClientRequestOf(LabelRequestKinds)
    \/ UserKeyOf({49, 50, 51}, MaxUser)
    \/ HandleFlashExpose
    \/ HandleSelectionRequest
    \/ HandleExpose
    \/ HandleKeyPress
    \/ HandleUnmapNotify
    \/ HandleMapNotify

SpecDigits == InitDigits /\ [][NextDigits]_vars

(***************************************************************************)
(* The specification of the hotkey: programs started with -f and with      *)
(* -k F1, in click mode and with -p, a user who opens the menu with F1 and *)
(* picks the first string or cancels, pastes of other clients, some with   *)
(* a time that precedes the ownership of the selection.                    *)
(***************************************************************************)
InitHotkey ==
    InitWith({CmdForce, CmdForcePaste, CmdContinuous, CmdImmediate},
             ReplyArgLists)

NextHotkey ==
    \/ ClientRequestOf(
          { [target |-> "STRING", property |-> "P", time |-> CurrentTime],
            [target |-> "STRING", property |-> "P", time |-> dpy.stime - 1] })
    \/ UserKeyOf({XK_F1, 49, 120}, MaxMenuUser)
    \/ HandleFlashExpose
    \/ HandleShowWindow
    \/ HandleSelectionRequest
    \/ HandleExpose
    \/ HandleKeyPress
    \/ HandleUnmapNotify
    \/ HandleMapNotify

SpecHotkey == InitHotkey /\ [][NextHotkey]_vars

(***************************************************************************)
(* The specification of the cursor: programs that are daemons and programs *)
(* that are not, in immediate mode and not, lists of none to three         *)
(* strings, a user who moves the cursor, deletes the string under it and   *)
(* releases a button on the menu opened by a paste.                        *)
(***************************************************************************)
InitCursor ==
    InitWith({CmdPaste, CmdClick, CmdDaemonPaste, CmdImmediate},
             { <<>>, SubSeq(StringPool, 1, 1), SubSeq(StringPool, 1, 2),
               SubSeq(StringPool, 1, 3) })

NextCursor ==
    \/ ClientRequestUpTo(LabelRequestKinds, 1)
    \/ UserKeyOf({XK_Up, XK_Down, XK_Delete, XK_BackSpace}, MaxMenuUser)
    \/ UserButton
    \/ HandleFlashExpose
    \/ HandleSelectionRequest
    \/ HandleExpose
    \/ HandleKeyPress
    \/ HandleButtonRelease
    \/ HandleUnmapNotify
    \/ HandleMapNotify

SpecCursor == InitCursor /\ [][NextCursor]_vars

(***************************************************************************)
(* The specification of the clock: ShortTime is called with the interval   *)
(* the program passes, and with 0 and the time of a message, at times that *)
(* are from nothing to three seconds apart, storing the time or not.  cur  *)
(* holds the arguments and the result of the last call.                    *)
(***************************************************************************)
InitShortTime == InitWith({CmdClick}, {SubSeq(StringPool, 1, 1)})

CallShortTime ==
    /\ nuser < MaxUser
    /\ \E gap \in {0, 70000, interval, interval + 1, 950000, 1050000,
                    2000000, 3000000},
          ival \in {0, interval, messagehide}, store \in BOOLEAN :
          LET tm == TimeAfter(now, gap)
              r == ShortTime(last, tm, ival, store)
          IN  /\ now' = tm
              /\ last' = r.last
              /\ cur' = [type |-> "ShortTime", last |-> last, now |-> tm,
                         interval |-> ival, ret |-> r.ret]
    /\ nuser' = nuser + 1
    /\ UNCHANGED << opt, separator, buffers, pending, showing, firefox,
                    chosen, openbykey, exitnext, stayinloop, prev, sfocus,
                    key, selected, request, t, hide, message, dpy, status,
                    reqs, ncapt, boot >>

SpecShortTime == InitShortTime /\ [][CallShortTime]_vars

(***************************************************************************)
(* The specification of the startup: two instances of the program, both    *)
(* started with -d or both without, run main() up to the main loop on the  *)
(* same display.  boot holds what the server knows of each (the name of    *)
(* its window w, the grab of Ctrl+Shift+Z, the owner of PRIMARY) and where *)
(* each is in main().  The variables of the main loop are not used here:   *)
(* the specification ends where the loop begins.                           *)
(***************************************************************************)
WMNAME == "multiselect"
WMNAMEDAEMON == "multiselectd"

Instances == {1, 2}

BootInit(dm) ==
    [daemon |-> dm,
     pc |-> [i \in Instances |-> "check"],
     name |-> [i \in Instances |-> "None"],   \* WM_NAME of window w
     grab |-> 0,                              \* who grabbed Ctrl+Shift+Z
     owner |-> 0,                             \* owner of PRIMARY
     error |-> [i \in Instances |-> FALSE],   \* an X error is on its way
     entered |-> [i \in Instances |-> FALSE]] \* the main loop was reached

\* WindowNameExists for instance i: a child of the root has this name; the
\* window of i itself is not created yet
WindowNameExists(b, i, name) ==
    \E j \in Instances \ {i} : b.name[j] = name

\* the process of instance i ends: the server destroys its windows and
\* forgets its grabs and its ownership
ExitInstance(b, i, how) ==
    [b EXCEPT !.pc[i] = how, !.name[i] = "None",
              !.grab = IF @ = i THEN 0 ELSE @,
              !.owner = IF @ = i THEN 0 ELSE @]

At(i, where) == boot.pc[i] = where

\* the variables of the main loop
progvars ==
    << opt, separator, buffers, pending, showing, firefox, chosen, openbykey,
       exitnext, stayinloop, prev, sfocus, key, selected, request, last, t,
       hide, message, now, dpy, status, cur, reqs, nuser, ncapt >>

\* do not run if already running: the two calls of WindowNameExists
CheckRunning(i) ==
    /\ At(i, "check")
    /\ boot' = IF WindowNameExists(boot, i, WMNAME)
               THEN ExitInstance(boot, i, "failure")
               ELSE [boot EXCEPT !.pc[i] = IF boot.daemon THEN "checkdaemon"
                                           ELSE "create"]
    /\ UNCHANGED progvars

CheckRunningDaemon(i) ==
    /\ At(i, "checkdaemon")
    /\ boot' = IF WindowNameExists(boot, i, WMNAMEDAEMON)
               THEN ExitInstance(boot, i, "failure")
               ELSE [boot EXCEPT !.pc[i] = "grab"]
    /\ UNCHANGED progvars

\* GrabKey(d, r, XK_z, ControlMask | ShiftMask): BadAccess if another
\* client has the grab; the error reaches the program at a later reply
GrabKeys(i) ==
    /\ At(i, "grab")
    /\ boot' = IF boot.grab \notin {0, i}
               THEN [boot EXCEPT !.error[i] = TRUE, !.pc[i] = "create"]
               ELSE [boot EXCEPT !.grab = i, !.pc[i] = "create"]
    /\ UNCHANGED progvars

\* XCreateWindow and XStoreName of window w
CreateWindow(i) ==
    /\ At(i, "create")
    /\ boot' = [boot EXCEPT !.name[i] = IF boot.daemon THEN WMNAMEDAEMON
                                        ELSE WMNAME,
                            !.pc[i] = "font"]
    /\ UNCHANGED progvars

\* XLoadQueryFont waits for a reply: a pending error is read, and the
\* default error handler of Xlib ends the process
LoadFont(i) ==
    /\ At(i, "font")
    /\ boot' = IF boot.error[i] THEN ExitInstance(boot, i, "xerror")
               ELSE [boot EXCEPT !.pc[i] = "setowner"]
    /\ UNCHANGED progvars

\* AcquirePrimarySelection: XSetSelectionOwner, then XGetSelectionOwner
SetOwner(i) ==
    /\ At(i, "setowner")
    /\ boot' = [boot EXCEPT !.owner = i, !.pc[i] = "getowner"]
    /\ UNCHANGED progvars

GetOwner(i) ==
    /\ At(i, "getowner")
    /\ boot' = IF boot.owner = i
               THEN [boot EXCEPT !.pc[i] = "loop", !.entered[i] = TRUE]
               ELSE ExitInstance(boot, i, "failure")
    /\ UNCHANGED progvars

\* in the main loop: an instance that is not a daemon ends when it is told
\* it lost the selection
LoseSelection(i) ==
    /\ At(i, "loop")
    /\ ~ boot.daemon
    /\ boot.owner # i
    /\ boot' = ExitInstance(boot, i, "success")
    /\ UNCHANGED progvars

InitStartup ==
    /\ boot \in {BootInit(FALSE), BootInit(TRUE)}
    /\ InitProgram({CmdClick}, ReplyArgLists)

NextStartup ==
    \E i \in Instances :
        \/ CheckRunning(i)
        \/ CheckRunningDaemon(i)
        \/ GrabKeys(i)
        \/ CreateWindow(i)
        \/ LoadFont(i)
        \/ SetOwner(i)
        \/ GetOwner(i)
        \/ LoseSelection(i)

SpecStartup == InitStartup /\ [][NextStartup]_vars

(***************************************************************************)
(* Properties of the answers.  reqs[i].calls are the requests the program  *)
(* sent to the server for selection request i, in order; dpy.out are those *)
(* of the last iteration of the main loop, and cur is the event it took.   *)
(***************************************************************************)
Notifies(calls) ==
    LET IsNotify(c) == c.op = "SendEvent" IN SelectSeq(calls, IsNotify)

Writes(calls) ==
    LET IsWrite(c) == c.op = "ChangeProperty" IN SelectSeq(calls, IsWrite)

Maps(calls) == \E j \in DOMAIN calls : calls[j].op = "MapRaised"

\* a request time that precedes the time own of the ownership
Stale(time, own) == time # CurrentTime /\ time < own

\* the calls of the last iteration made for the request of the event it took
CurCalls == CallsFor(dpy.out, cur.req.id)

\* C1: every selection request the program took from its queue is answered
\* with exactly one SelectionNotify, sent to the requestor with the
\* selection, the target and the time of the request: never two, and never
\* none once the program has ended.
C1_ExactlyOneReply ==
    \A i \in DOMAIN reqs :
        LET n == Notifies(reqs[i].calls)
        IN  /\ Len(n) <= 1
            /\ reqs[i].taken /\ status = "success" => Len(n) = 1
            /\ \A j \in DOMAIN n :
                  /\ n[j].window = reqs[i].req.requestor
                  /\ n[j].selection = reqs[i].req.selection
                  /\ n[j].target = reqs[i].req.target
                  /\ n[j].time = reqs[i].req.time

\* a request is pending: stored, and not answered yet
C2_Unanswered ==
    /\ pending
    /\ request.id \in DOMAIN reqs
    /\ Notifies(reqs[request.id].calls) = <<>>

\* the next event is a request for the selection as a string
C2_FurtherRequest ==
    /\ Next_Event("SelectionRequest")
    /\ Head(dpy.queue).req.target \in {"STRING", "UTF8_STRING"}
    /\ Head(dpy.queue).req.requestor # "w"

\* C2: while a request is stored and not answered, the handling of a further
\* request for STRING or UTF8_STRING leaves the stored request as it is and
\* does not map the menu.
C2_StoredRequestIsKept ==
    [][C2_Unanswered /\ C2_FurtherRequest /\ HandleSelectionRequest
          => request' = request /\ ~ Maps(dpy'.out)]_vars

\* the answer request i got: a refusal, or the bytes stored
C3_Answer(i) ==
    LET n == Notifies(reqs[i].calls)
        w == Writes(reqs[i].calls)
    IN  IF n[1].property = "None" \/ w = <<>>
        THEN [refused |-> TRUE, data |-> NULL]
        ELSE [refused |-> FALSE, data |-> w[Len(w)].data]

\* C3 as stated: two answered requests for the same target that the program
\* took at most interval microseconds apart got the same answer, the same
\* bytes or a refusal both.
C3_SameAnswerByArrival ==
    \A i \in DOMAIN reqs, j \in DOMAIN reqs :
        /\ i < j
        /\ reqs[i].taken /\ reqs[j].taken
        /\ Notifies(reqs[i].calls) # <<>> /\ Notifies(reqs[j].calls) # <<>>
        /\ reqs[i].req.target = reqs[j].req.target
        /\ reqs[i].req.requestor = reqs[j].req.requestor
        /\ reqs[i].req.property = reqs[j].req.property
        /\ reqs[i].req.time = reqs[j].req.time
        /\ Micros(reqs[j].arrival) - Micros(reqs[i].arrival) <= interval
        => C3_Answer(i) = C3_Answer(j)

\* C3, amended: a request for STRING or UTF8_STRING handled while the menu is
\* not shown, with no firefox request and no choice outstanding, at most
\* interval microseconds after the time stored as the last answer, is
\* answered at once from the string chosen last: the menu is not mapped, the
\* stored request and pending are left alone, the request gets one
\* notification, what is stored (if anything) is the chosen string, and the
\* answer is a refusal if no string is chosen.
C3_RepeatWithinWindow ==
    [][/\ C2_FurtherRequest
       /\ ~ showing /\ ~ firefox /\ ~ (click /\ chosen)
       /\ HandleSelectionRequest
       /\ Micros(now') - Micros(last) <= interval
       => LET calls == CallsFor(dpy'.out, Head(dpy.queue).req.id)
          IN  /\ ~ Maps(dpy'.out)
              /\ request' = request
              /\ pending' = pending
              /\ last' = now'
              /\ Len(Notifies(calls)) = 1
              /\ \A c \in DOMAIN calls :
                    calls[c].op = "ChangeProperty"
                        => calls[c].data = ChosenString(buffers, separator, key)
              /\ key = -1 => /\ Notifies(calls)[1].property = "None"
                             /\ Writes(calls) = <<>>]_vars

\* the user closed the menu of the first request with a key that chooses no
\* string, the request was refused, and the same request made again within
\* the interval has been refused without mapping the menu
C3_CancelThenDuplicate ==
    /\ ~ click /\ ~ external
    /\ Len(reqs) = 2
    /\ cur.type = "SelectionRequest" /\ cur.req.id = 2
    /\ cur.property = "shorttime"
    /\ key = -1
    /\ reqs[1].req.target = "STRING" /\ reqs[1].req.time = CurrentTime
    /\ reqs[2].req = [reqs[1].req EXCEPT !.id = 2]
    /\ Len(Notifies(reqs[1].calls)) = 1
    /\ Notifies(reqs[1].calls)[1].property = "None"
    /\ Len(CurCalls) = 1
    /\ CurCalls[1].op = "SendEvent" /\ CurCalls[1].property = "None"
    /\ ~ Maps(dpy.out)
    /\ ~ dpy.wmapped

\* the last iteration took a request for TARGETS
C4_TargetsTaken ==
    cur.type = "SelectionRequest" /\ cur.req.target = "TARGETS"

\* calls is the write of the list of targets for request re, then the
\* notification that names property
C4_ListSent(calls, re, property) ==
    /\ Len(calls) = 2
    /\ calls[1].op = "ChangeProperty"
    /\ calls[1].window = re.requestor
    /\ calls[1].property = re.property
    /\ calls[1].type = "ATOM"
    /\ calls[1].format = 32
    /\ calls[1].data = << "STRING", "UTF8_STRING" >>
    /\ calls[2].op = "SendEvent"
    /\ calls[2].window = re.requestor
    /\ calls[2].target = "TARGETS"
    /\ calls[2].property = property

\* C4 as stated: every request for TARGETS is answered with the format 32
\* list of atoms STRING, UTF8_STRING and a notification whose property is
\* not None, whatever the state, the time and the property of the request.
C4_TargetsNeverRefused ==
    C4_TargetsTaken =>
        \E property \in {"P", "_XT_SELECTION_1"} :
            C4_ListSent(CurCalls, cur.req, property)

\* C4, amended: a request for TARGETS that does not come from the menu
\* window and whose time is CurrentTime or not before the time of the
\* ownership is answered, in every state, with the write of the format 32
\* list of atoms STRING, UTF8_STRING to the property the request names,
\* followed by a notification that names that property, or _XT_SELECTION_1
\* if the request names None; a request for TARGETS from the menu window or
\* with an earlier time is refused.
C4_TargetsAnswered ==
    C4_TargetsTaken =>
        IF cur.req.requestor = "w" \/ Stale(cur.req.time, t)
        THEN /\ Len(CurCalls) = 1
             /\ CurCalls[1].op = "SendEvent"
             /\ CurCalls[1].property = "None"
        ELSE C4_ListSent(CurCalls, cur.req,
                 IF cur.req.property = "None" THEN "_XT_SELECTION_1"
                 ELSE cur.req.property)

\* a request for TARGETS with a time of the server has been answered with
\* the list while the menu was shown for another request
C4_ListSentWhileShowing ==
    /\ C4_TargetsTaken
    /\ showing /\ pending
    /\ cur.req.requestor = "A"
    /\ cur.req.time # CurrentTime
    /\ C4_ListSent(CurCalls, cur.req, "P")

\* the last iteration passed a request with a supported target to
\* SendSelection: the request was for TARGETS, or a string was chosen and
\* the helper, if any, left the request to the program
C5_SendSelectionReached ==
    /\ \/ cur.property = "targets"
       \/ /\ cur.property \in {"firefox", "chosen", "shorttime", "unmap-answer"}
          /\ key # -1
          /\ LET IsHelper(c) == c.op = "External"
                 h == SelectSeq(dpy.out, IsHelper)
             IN  h = <<>> \/ h[Len(h)].ret # 0
    /\ Len(Notifies(dpy.out)) = 1
    /\ Notifies(dpy.out)[1].target \in {"STRING", "UTF8_STRING", "TARGETS"}

\* C5: no property is written for a request whose time is not CurrentTime
\* and precedes the time of the ownership, and the notification such a
\* request gets is a refusal; a request with time CurrentTime that reaches
\* the check of the time is not refused.
C5_StaleRequestsAreRefused ==
    /\ \A j \in DOMAIN dpy.out :
          LET c == dpy.out[j]
          IN  /\ c.op = "ChangeProperty" => ~ Stale(c.time, t) /\ c.own = t
              /\ c.op = "SendEvent" /\ Stale(c.time, t) => c.property = "None"
    /\ C5_SendSelectionReached /\ Notifies(dpy.out)[1].time = CurrentTime
          => Notifies(dpy.out)[1].property # "None"

\* a stored request with an old time has been refused after the user chose
\* a string
C5_StaleRequestRefused ==
    /\ cur.type = "UnmapNotify"
    /\ C5_SendSelectionReached
    /\ Stale(request.time, t)
    /\ Notifies(dpy.out)[1].id = request.id
    /\ Notifies(dpy.out)[1].property = "None"
    /\ Writes(dpy.out) = <<>>

\* every notification among calls that names a property comes after a write
\* made for the same request
C6_WriteFirst(calls) ==
    \A j \in DOMAIN calls :
        calls[j].op = "SendEvent" /\ calls[j].property # "None"
            => \E k \in 1..(j - 1) :
                  /\ calls[k].op = "ChangeProperty"
                  /\ calls[k].id = calls[j].id
                  /\ calls[k].window = calls[j].window

\* C6: a SelectionNotify that names a property is sent only after the write
\* of the data made for the same request to the window of the requestor.
C6_WriteBeforeNotify ==
    /\ C6_WriteFirst(dpy.out)
    /\ \A i \in DOMAIN reqs : C6_WriteFirst(reqs[i].calls)

\* the chosen string has been stored and then notified
C6_StringSent ==
    /\ Len(dpy.out) >= 2
    /\ \E j \in 2..Len(dpy.out) :
          /\ dpy.out[j].op = "SendEvent"
          /\ dpy.out[j].property = "P"
          /\ dpy.out[j].target = "STRING"
          /\ dpy.out[j - 1].op = "ChangeProperty"
          /\ dpy.out[j - 1].property = "P"
          /\ dpy.out[j - 1].data = ChosenString(buffers, separator, key)
          /\ dpy.out[j - 1].data # NULL

\* C10: the time stored in last never decreases, also when ShortTime is
\* called only to test.
C10_LastNeverDecreases == [][Micros(last') >= Micros(last)]_vars

\* a call of ShortTime that only tests has moved last forward
C10_TestMovedLast ==
    /\ cur.type = "SelectionRequest"
    /\ cur.property = "store"
    /\ Micros(last) > 0
    /\ last # now
    /\ last.tv_sec = now.tv_sec - 2

(***************************************************************************)
(* Properties of the list of strings.                                      *)
(***************************************************************************)
\* what is pasted for the string raw when the separator given with -t is
\* sep (NUL: -t not given): raw, or what follows the first sep in raw
C7_Payload(raw, sep) ==
    IF sep = NUL \/ strchr(raw, sep) = 0 THEN raw
    ELSE SubSeq(raw, strchr(raw, sep) + 1, Len(raw))

\* C7: the bytes stored for a request are the chosen string in full if and
\* only if no separator was given or the separator does not occur in the
\* string; otherwise they are what follows its first occurrence.
C7_LabelSplit ==
    \A j \in DOMAIN dpy.out :
        LET c == dpy.out[j]
        IN  /\ c.op = "ChangeProperty"
            /\ c.type \in {"STRING", "UTF8_STRING"}
            /\ key >= 0 /\ key < num
            => LET raw == buffers[key + 1]
               IN  /\ c.data = C7_Payload(raw, opt.sep)
                   /\ c.data = raw
                          <=> (opt.sep = NUL \/ strchr(raw, opt.sep) = 0)

\* C8: the number of stored strings is between 0 and MAXNUM.
C8_NumWithinBounds == num >= 0 /\ num <= MAXNUM

\* the selection of another client has been stored as string number MAXNUM
C8_ListFilled ==
    /\ cur.type = "SelectionNotify"
    /\ cur.property = "notify"
    /\ ncapt = 1
    /\ num = MAXNUM
    /\ buffers[num] = StringPool[2]

\* C9: the cursor is -1 or the index of a stored string, and it is -1 when
\* no string is stored.
C9_CursorWithinList ==
    /\ selected = -1 \/ (selected >= 0 /\ selected < num)
    /\ num = 0 => selected = -1

\* the string under the cursor was the only one and has been deleted
C9_OnlyStringDeleted ==
    /\ cur.type = "KeyPress"
    /\ cur.property = "delete"
    /\ num = 0
    /\ selected = -1

(***************************************************************************)
(* Properties of the stored request, of the choice and of the end of the   *)
(* program.                                                                *)
(***************************************************************************)
\* the last iteration handled the UnmapNotify of the menu, and the program
\* is still running
C11_MenuClosed ==
    /\ cur.type = "UnmapNotify"
    /\ cur.window = "w"
    /\ Running

\* C11: once the UnmapNotify of a menu the user closed with a key that
\* chooses no string has been handled, no request is pending, in click mode
\* as well as in -p mode.
C11_CancelClearsPending ==
    C11_MenuClosed /\ key = -1 => ~ pending

\* no call of the helper among calls took the request for itself
C12_HelperLeaves(calls) ==
    \A j \in DOMAIN calls : calls[j].op = "External" => calls[j].ret # 0

\* C12: in click mode, while a choice is outstanding the index of the chosen
\* string is that of a stored string, and a request for STRING or
\* UTF8_STRING of another client handled with the menu hidden is answered at
\* once with what follows the separator in the chosen string: the menu is
\* not mapped, the request gets one notification, whatever is written is
\* that payload, it is written unless the time of the request is stale or
\* the helper takes the request, and the choice and the pending flag are
\* cleared, so that one choice serves one request.
C12_ChoiceServesOneRequest ==
    [][/\ click /\ chosen /\ ~ showing
       /\ C2_FurtherRequest
       /\ HandleSelectionRequest
       => LET re == Head(dpy.queue).req
              calls == CallsFor(dpy'.out, re.id)
          IN  /\ key >= 0 /\ key < num
              /\ ~ Maps(dpy'.out)
              /\ ~ chosen'
              /\ ~ pending'
              /\ request' = request
              /\ Len(Notifies(calls)) = 1
              /\ \A c \in DOMAIN calls :
                    calls[c].op = "ChangeProperty"
                        => /\ calls[c].data = C7_Payload(buffers[key + 1], opt.sep)
                           /\ calls[c].window = re.requestor
              /\ ~ Stale(re.time, t) /\ C12_HelperLeaves(dpy'.out)
                    => /\ Len(Writes(calls)) = 1
                       /\ Notifies(calls)[1].property = ReplyProperty(re)]_vars

\* the user picked the first string, the program clicked the middle button,
\* and the request that followed has been answered with " v", the payload
\* of "k: v", without mapping the menu
C12_ChoicePasted ==
    /\ click
    /\ cur.type = "SelectionRequest"
    /\ cur.property = "chosen"
    /\ key = 0
    /\ ~ chosen /\ ~ pending
    /\ ~ dpy.wmapped
    /\ Len(CurCalls) = 2
    /\ CurCalls[1].op = "ChangeProperty"
    /\ CurCalls[1].data = << 32, 118 >>
    /\ CurCalls[2].op = "SendEvent"
    /\ CurCalls[2].property = "P"

\* the next event is a request of another client for the target firefox
\* asks when its wait for the selection has expired
C13_SentinelRequest ==
    /\ Next_Event("SelectionRequest")
    /\ Head(dpy.queue).req.target = "text/x-moz-text-internal"
    /\ Head(dpy.queue).req.requestor # "w"

C14_ExitAfterPendingResolved ==
    /\ ~ daemon
    /\ cur.type = "SelectionClear"
    /\ status = "success"
    /\ pending
    /\ request.id \in DOMAIN reqs
    => Notifies(reqs[request.id].calls) # <<>>

\* C15: a program that has ended with exitnext set has answered the request
\* that was pending, has unmapped the menu and has given the focus back.
C15_ExitAfterTransaction ==
    exitnext /\ status = "success"
    => /\ pending /\ request.id \in DOMAIN reqs
          => Notifies(reqs[request.id].calls) # <<>>
       /\ ~ dpy.wmapped
       /\ dpy.focus # "w"

\* the last key the program handled is q
C16_QuitPressed == cur.type = "KeyPress" /\ cur.k = 113

\* C16: when key q has been handled in a menu opened for a request the list
\* is empty, the menu is unmapped and the program has ended or is to end at
\* the next unmap (exitnext); and from then on the program does end, daemon
\* or not.
C16_QuitTerminates ==
    /\ [](C16_QuitPressed
            => num = 0 /\ ~ dpy.wmapped /\ (exitnext \/ ~ Running))
    /\ (C16_QuitPressed ~> ~ Running)

\* a daemon has ended at the unmap of the menu it had opened for a request,
\* after key q
C16_DaemonQuit ==
    /\ daemon
    /\ exitnext
    /\ status = "success"
    /\ cur.type = "UnmapNotify" /\ cur.window = "w"
    /\ cur.property = "unmap-exit"
    /\ request.id \in DOMAIN reqs
    /\ num = 0

(***************************************************************************)
(* Properties of the selections of other clients.                          *)
(***************************************************************************)
\* the conversion of PRIMARY to STRING is among calls
C17_Converts(calls) ==
    \E j \in DOMAIN calls :
        /\ calls[j].op = "ConvertSelection"
        /\ calls[j].selection = "PRIMARY"
        /\ calls[j].target = "STRING"
        /\ calls[j].window = "w"

\* C17: in continuous mode, the handling of a SelectionClear asks the new
\* owner for the selection (unless the program is about to end or the list
\* is full), and the handling of the answer, when it carries a string,
\* appends the string to the list and makes the program the owner of
\* PRIMARY again, with a new timestamp; the program goes on running.
C17_CaptureOnClear ==
    [][continuous
       => /\ /\ HandleSelectionClear
             /\ ~ exitnext /\ num < MAXNUM /\ dpy.owner = "other"
             => /\ C17_Converts(dpy'.out)
                /\ dpy'.conv = dpy.conv + 1
                /\ Running'
          /\ /\ HandleSelectionNotify
             /\ Head(dpy.queue).property # "None"
             /\ Head(dpy.queue).value # NULL
             /\ num < MAXNUM
             => /\ buffers' = Append(buffers, Head(dpy.queue).value)
                /\ dpy'.owner = "w"
                /\ t' = dpy'.stime /\ t' > dpy.stime
                /\ Running']_vars

\* without any key of the user, the program lost the selection it had
\* acquired at startup, and the string of the new owner has been appended
\* and the selection acquired again
C17_CapturedAfterClear ==
    /\ continuous
    /\ nuser = 0
    /\ ncapt = 1
    /\ cur.type = "SelectionNotify"
    /\ cur.property = "notify"
    /\ num >= 1
    /\ buffers[num] = StringPool[2]
    /\ dpy.owner = "w"
    /\ t = 3
    /\ Running

(***************************************************************************)
(* Properties of the startup.                                              *)
(***************************************************************************)
\* C18: of two instances started on the same display, both with -d or both
\* without, at most one reaches the main loop.
C18_Singleton ==
    ~ (boot.entered[1] /\ boot.entered[2])

(***************************************************************************)
(* Properties of the helper.                                               *)
(***************************************************************************)
\* call j of calls is a call of the helper for action
C19_Helper(calls, j, action) ==
    calls[j].op = "External" /\ calls[j].type = action

\* C19: the helper is called to paste only right after the refusal of the
\* request, which follows a probe for the same requestor and the same
\* string that returned 0, and then nothing is written to a property of the
\* requestor; a string is written, when a helper is given, only right after
\* a probe for that requestor and that string that did not return 0, and
\* then the helper does not paste; and the helper never pastes for a
\* request answered as a repetition.
C19_HelperProtocol ==
    LET out == dpy.out
    IN  /\ \A j \in DOMAIN out :
              C19_Helper(out, j, "paste")
              => /\ j >= 3
                 /\ C19_Helper(out, j - 2, "test")
                 /\ out[j - 2].ret = 0
                 /\ out[j - 2].window = out[j].window
                 /\ out[j - 2].data = out[j].data
                 /\ out[j - 1].op = "SendEvent"
                 /\ out[j - 1].window = out[j].window
                 /\ out[j - 1].property = "None"
                 /\ Writes(out) = <<>>
        /\ \A j \in DOMAIN out :
              /\ external
              /\ out[j].op = "ChangeProperty"
              /\ out[j].type \in {"STRING", "UTF8_STRING"}
              => /\ j >= 2
                 /\ C19_Helper(out, j - 1, "test")
                 /\ out[j - 1].ret # 0
                 /\ out[j - 1].window = out[j].window
                 /\ out[j - 1].data = out[j].data
                 /\ \A k \in DOMAIN out : ~ C19_Helper(out, k, "paste")
        /\ cur.property \in {"shorttime", "firefox"}
              => \A k \in DOMAIN out : ~ C19_Helper(out, k, "paste")

\* the helper answered 0 to the probe for the string the user picked, the
\* request was refused and the helper was called to paste
C19_HelperPasted ==
    /\ external
    /\ cur.type = "UnmapNotify"
    /\ key = 0
    /\ Len(dpy.out) >= 3
    /\ LET n == Len(dpy.out)
       IN  /\ C19_Helper(dpy.out, n, "paste")
           /\ dpy.out[n].data = << 32, 118 >>
           /\ dpy.out[n].window = "A"
           /\ C19_Helper(dpy.out, n - 2, "test")
           /\ dpy.out[n - 1].op = "SendEvent"
           /\ dpy.out[n - 1].property = "None"

(***************************************************************************)
(* Properties of the keys that add a selection.                            *)
(***************************************************************************)
\* the next event is key z or F2, and the program is the owner of PRIMARY
\* or the list is full
C20_AddKeyInVain ==
    /\ Next_Event("KeyPress")
    /\ Head(dpy.queue).k \in {122, XK_F2}
    /\ dpy.owner = "w" \/ num >= MAXNUM

\* the flash window is mapped by one of calls
C20_Flashes(calls) ==
    \E j \in DOMAIN calls :
        calls[j].op = "MapRaised" /\ calls[j].window = "f"

\* C20 as stated: key z or F2 pressed when the program owns PRIMARY or the
\* list is full asks for no conversion, leaves the list as it is and
\* flashes no message.
C20_AddKeyIsNoOp ==
    [][C20_AddKeyInVain /\ HandleKeyPress
       => /\ ~ C17_Converts(dpy'.out)
          /\ dpy'.conv = dpy.conv
          /\ buffers' = buffers
          /\ message' = message
          /\ ~ C20_Flashes(dpy'.out)]_vars

\* C20, amended: key z or F2 pressed when the program owns PRIMARY or the
\* list is full asks for no conversion and leaves the list as it is; when
\* the list is full no message is set and the flash window is not mapped;
\* when the list is not full and the program owns PRIMARY the message
\* "select a string first" is set and, unless the program is about to end,
\* the flash window is mapped to show it for changehide microseconds.
C20_AddKeyAsksNothing ==
    [][C20_AddKeyInVain /\ HandleKeyPress
       => /\ ~ C17_Converts(dpy'.out)
          /\ dpy'.conv = dpy.conv
          /\ buffers' = buffers
          /\ num >= MAXNUM
             => /\ message' = message
                /\ hide' = hide
                /\ ~ C20_Flashes(dpy'.out)
          /\ num < MAXNUM
             => /\ message' = "select a string first"
                /\ ~ exitnext => /\ C20_Flashes(dpy'.out)
                                /\ hide' = changehide]_vars

\* key z has been handled while the program owned PRIMARY: nothing was
\* asked, and the flash window is up with the message
C20_MessageFlashed ==
    /\ cur.type = "KeyPress" /\ cur.k = 122
    /\ cur.property = "add-none"
    /\ dpy.owner = "w"
    /\ dpy.conv = 0
    /\ message = "select a string first"
    /\ hide = changehide
    /\ dpy.fmapped
    /\ C20_Flashes(dpy.out)

\* the next event is the press of a digit whose index is not below the
\* number of stored strings
C21_DigitBeyond ==
    /\ Next_Event("KeyPress")
    /\ Head(dpy.queue).k \in 49..57
    /\ keyindex(Head(dpy.queue).k) >= num

\* the calls made so far for the stored request are one refusal and no
\* write
C21_Refused(calls) ==
    /\ Writes(calls) = <<>>
    /\ Len(Notifies(calls)) = 1
    /\ Notifies(calls)[1].property = "None"

C22_NotifyNamesWrittenProperty ==
    \A i \in DOMAIN reqs :
        LET n == Notifies(reqs[i].calls)
            w == Writes(reqs[i].calls)
        IN  \A j \in DOMAIN n :
                n[j].property # "None"
                => /\ Len(w) = 1
                   /\ w[1].window = n[j].window
                   /\ w[1].property = n[j].property
                   /\ reqs[i].req.property = "None"
                      => n[j].property = "_XT_SELECTION_1"

\* the next event is a request for STRING or UTF8_STRING from another
\* client, and neither the menu is shown, nor a request of firefox is
\* latched, nor a choice made in click mode is outstanding
C23_FreshRequest ==
    /\ Next_Event("SelectionRequest")
    /\ Head(dpy.queue).req.requestor # "w"
    /\ Head(dpy.queue).req.target \in {"STRING", "UTF8_STRING"}
    /\ ~ showing /\ ~ firefox /\ ~ (click /\ chosen)

\* C23: a request for STRING or UTF8_STRING of another client, handled
\* while the menu is not shown, no request of firefox is latched and no
\* choice is outstanding, more than interval microseconds after the time
\* of the last answer, becomes the stored request, pending is set and the
\* menu is mapped; in click mode the request is refused at once, with one
\* SelectionNotify of property None and no write, and otherwise nothing is
\* sent for it yet.
C23_FreshRequestStored ==
    [][/\ C23_FreshRequest
       /\ HandleSelectionRequest
       /\ Micros(now') - Micros(last) > interval
       => LET re == Head(dpy.queue).req
              calls == CallsFor(dpy'.out, re.id)
          IN  /\ request' = re
              /\ pending'
              /\ \E j \in DOMAIN dpy'.out :
                    /\ dpy'.out[j].op = "MapRaised"
                    /\ dpy'.out[j].window = "w"
              /\ dpy'.wmapped
              /\ click => /\ Len(calls) = 1
                          /\ calls[1].op = "SendEvent"
                          /\ calls[1].property = "None"
                          /\ calls[1].window = re.requestor
              /\ ~ click => calls = <<>>]_vars

\* in click mode a request has just been stored: it was refused, and the
\* menu is mapped
C23_StoredAndRefused ==
    /\ click
    /\ cur.type = "SelectionRequest" /\ cur.property = "store"
    /\ pending /\ request = cur.req
    /\ dpy.wmapped
    /\ Len(reqs[request.id].calls) = 1
    /\ reqs[request.id].calls[1].op = "SendEvent"
    /\ reqs[request.id].calls[1].property = "None"

\* one of calls warps the pointer or fakes a button event
C24_Clicks(calls) ==
    \E j \in DOMAIN calls : calls[j].op \in {"WarpPointer", "FakeButton"}

\* C24 as stated: with -p, when the menu is closed the stored request is
\* answered: one SelectionNotify is sent to its requestor, a refusal when
\* no entry was picked, and what is written is the payload of the picked
\* entry; the pointer is not warped and no button event is generated.
C24_AnsweredAtClose ==
    [][/\ HandleUnmapNotify
       /\ Head(dpy.queue).window = "w"
       /\ ~ click /\ pending
       => LET calls == CallsFor(dpy'.out, request.id)
              n == Notifies(calls)
              w == Writes(calls)
          IN  /\ Len(n) = 1
              /\ n[1].window = request.requestor
              /\ key = -1 => n[1].property = "None" /\ w = <<>>
              /\ \A j \in DOMAIN w :
                    w[j].data = ChosenString(buffers, separator, key)
              /\ ~ C24_Clicks(dpy'.out)]_vars

\* the next event is the UnmapNotify of the menu of a program started with
\* -f, the menu was opened by F1, with no request stored, and a string is
\* picked
C25_ForcedPick ==
    /\ Next_Event("UnmapNotify")
    /\ Head(dpy.queue).window = "w"
    /\ force /\ openbykey /\ ~ pending
    /\ key # -1 /\ ~ exitnext

\* the request made up for the window that had the focus is stored, and
\* the picked payload is sent for it: written as a STRING to property
\* _XT_SELECTION_1 of that window, which the one SelectionNotify names
C25_Fabricated(sf) ==
    LET n == Notifies(dpy'.out)
        w == Writes(dpy'.out)
    IN  /\ request' = [request EXCEPT !.id = 0, !.requestor = sf,
                                      !.target = "STRING",
                                      !.property = "None"]
        /\ Len(n) = 1 /\ Len(w) = 1
        /\ n[1].window = sf /\ n[1].target = "STRING"
        /\ n[1].property = "_XT_SELECTION_1"
        /\ w[1].window = sf /\ w[1].property = "_XT_SELECTION_1"
        /\ w[1].type = "STRING"
        /\ w[1].data = ChosenString(buffers, separator, key)

\* C25 as stated: with -f, when the menu opened by F1 is closed with a
\* string picked, a request with the saved focus window as requestor,
\* target STRING and property None is made up and the picked payload is
\* sent for it, in click mode as well as with -p.
C25_ForcedPasteInBothModes ==
    [][C25_ForcedPick /\ HandleUnmapNotify
       => C25_Fabricated(IF prev # "None" THEN prev ELSE sfocus)]_vars

\* C25, amended: with -f and -p, when the menu opened by F1 is closed with
\* a string picked, the request is made up and the payload sent for it,
\* unless the time left in the stored request precedes the ownership, and
\* then the made up request is refused; with -f in click mode and no
\* helper nothing is sent: the choice is recorded, the pointer is warped
\* and a click of the middle button is generated.
C25_ForcedPaste ==
    [][C25_ForcedPick /\ HandleUnmapNotify
       => LET sf == IF prev # "None" THEN prev ELSE sfocus
              n == Notifies(dpy'.out)
          IN  /\ ~ click /\ ~ Stale(request.time, t) => C25_Fabricated(sf)
              /\ ~ click /\ Stale(request.time, t)
                 => /\ Len(n) = 1 /\ n[1].property = "None"
                    /\ n[1].window = sf
                    /\ Writes(dpy'.out) = <<>>
              /\ ~ click => ~ C24_Clicks(dpy'.out) /\ ~ chosen'
              /\ click /\ ~ external
                 => /\ n = <<>> /\ Writes(dpy'.out) = <<>>
                    /\ C24_Clicks(dpy'.out)
                    /\ chosen' /\ pending'
                    /\ request' = request]_vars

\* with -f and -p the menu opened by F1 has been closed with the first
\* string picked: its payload is in _XT_SELECTION_1 of the window that had
\* the focus
C25_PastedInFocus ==
    /\ force /\ ~ click
    /\ cur.type = "UnmapNotify" /\ cur.property = "unmap-answer"
    /\ key = 0
    /\ request.id = 0 /\ request.requestor = "A"
    /\ request.target = "STRING" /\ request.property = "None"
    /\ Len(Writes(dpy.out)) = 1
    /\ Writes(dpy.out)[1].window = "A"
    /\ Writes(dpy.out)[1].property = "_XT_SELECTION_1"
    /\ Writes(dpy.out)[1].data = ChosenString(buffers, separator, 0)

\* the next event is the UnmapNotify that closes a menu mapped by the
\* hotkey, in a program started without -f: no request was stored since
\* the hotkey mapped the menu, and no other unmap of the menu is waiting
C26_HotkeyMenuCloses ==
    /\ Next_Event("UnmapNotify")
    /\ Head(dpy.queue).window = "w"
    /\ ~ force
    /\ cur.by = "key"
    /\ ~ dpy.wmapped
    /\ \A j \in 2..Len(dpy.queue) :
          ~ (dpy.queue[j].type = "UnmapNotify" /\ dpy.queue[j].window = "w")

\* C26 as stated: without -f, closing a menu that was opened by F1 and not
\* by a paste sends no SelectionNotify, writes no property and generates
\* no click of the middle button, whatever requests were handled before.
C26_HotkeyMenuSendsNothing ==
    [][C26_HotkeyMenuCloses /\ HandleUnmapNotify
       => /\ Notifies(dpy'.out) = <<>>
          /\ Writes(dpy'.out) = <<>>
          /\ ~ C24_Clicks(dpy'.out)]_vars

\* one of calls asks the server to make window win the owner of PRIMARY
C27_SetsOwner(calls, win) ==
    \E j \in DOMAIN calls :
        calls[j].op = "SetSelectionOwner" /\ calls[j].window = win

\* C27 as stated: when a SelectionNotify with a property that is not None
\* has been handled, the program has asked for the ownership of PRIMARY if
\* and only if the list then holds at least two strings or the program is
\* in continuous mode; otherwise the owner is who it was.
C27_AcquireAfterCapture ==
    [][/\ Next_Event("SelectionNotify")
       /\ Head(dpy.queue).property # "None"
       /\ HandleSelectionNotify
       => /\ C27_SetsOwner(dpy'.out, "w") <=> (num' >= 2 \/ continuous)
          /\ C27_SetsOwner(dpy'.out, "w") => dpy'.owner = "w"
          /\ ~ C27_SetsOwner(dpy'.out, "w") => dpy'.owner = dpy.owner]_vars

\* C27, amended: when a SelectionNotify with a property that is not None
\* is handled and the list is not full, the program asks for the ownership
\* of PRIMARY if and only if the list then holds at least two strings or
\* the program is in continuous mode, and otherwise the owner is who it
\* was; when the list is full the property is not read, the list is
\* unchanged and the ownership is not asked for.
C27_AcquireUnlessFull ==
    [][/\ Next_Event("SelectionNotify")
       /\ Head(dpy.queue).property # "None"
       /\ HandleSelectionNotify
       => /\ num < MAXNUM
             => /\ C27_SetsOwner(dpy'.out, "w") <=> (num' >= 2 \/ continuous)
                /\ C27_SetsOwner(dpy'.out, "w") => dpy'.owner = "w"
          /\ num >= MAXNUM
             => /\ buffers' = buffers
                /\ ~ C27_SetsOwner(dpy'.out, "w")
          /\ ~ C27_SetsOwner(dpy'.out, "w") => dpy'.owner = dpy.owner]_vars

\* a program that is not in continuous mode has captured its second string
\* from another owner, and has become the owner of PRIMARY
C27_SecondStringOwned ==
    /\ ~ continuous
    /\ cur.type = "SelectionNotify" /\ cur.property = "notify"
    /\ num = 2 /\ ncapt = 1
    /\ C27_SetsOwner(dpy.out, "w")
    /\ dpy.owner = "w"

\* C28 as stated: a conversion of PRIMARY is asked only when PRIMARY has an
\* owner that is not the program and the list holds fewer than MAXNUM
\* strings, the conversion asked before the main loop included; and a
\* string is added to the list only from the answer to such a conversion.
C28_ConversionOnlyWithRoom ==
    /\ dpy.conv > 0 => dpy.owner = "other" /\ num < MAXNUM
    /\ [][C17_Converts(dpy'.out)
           => dpy.owner = "other" /\ num < MAXNUM]_vars
    /\ [][num' > num
           => /\ Next_Event("SelectionNotify")
              /\ Head(dpy.queue).property # "None"
              /\ buffers' = Append(buffers, Head(dpy.queue).value)]_vars

\* C28, amended: in the main loop a conversion of PRIMARY is asked only
\* when PRIMARY has an owner that is not the program and the list holds
\* fewer than MAXNUM strings; the conversion asked before the main loop,
\* in continuous mode, is asked whenever PRIMARY has an owner, whatever
\* the length of the list; and a string is added to the list only from the
\* answer to a conversion.
C28_ConversionFromOthers ==
    /\ dpy.conv > 0 => dpy.owner = "other" /\ continuous
    /\ [][C17_Converts(dpy'.out)
           => dpy.owner = "other" /\ num < MAXNUM]_vars
    /\ [][num' > num
           => /\ Next_Event("SelectionNotify")
              /\ Head(dpy.queue).property # "None"
              /\ buffers' = Append(buffers, Head(dpy.queue).value)]_vars

\* key z has been handled while another client owned PRIMARY and the list
\* had room: the conversion has been asked
C28_ConversionAsked ==
    /\ cur.type = "KeyPress" /\ cur.k = 122 /\ cur.property = "add"
    /\ C17_Converts(dpy.out)
    /\ dpy.owner = "other"
    /\ dpy.conv > 0
    /\ num < MAXNUM

\* C29 as stated: the program sets the owner of PRIMARY to None only while
\* it is the owner itself; when it ends after another client has become
\* the owner, that client is still the owner.
C29_DisownOnlyOwn ==
    [][/\ C27_SetsOwner(dpy'.out, "None") => dpy.owner = "w"
       /\ dpy.owner = "other" /\ status' # "running"
          => dpy'.owner = "other"]_vars

\* C30 as stated: key d or F4 pressed while the menu is shown empties the
\* list, whatever its length, and picks no string to paste.
C30_DeleteAllEmpties ==
    [][/\ Next_Event("KeyPress")
       /\ Head(dpy.queue).k \in {100, XK_F4}
       /\ showing
       /\ HandleKeyPress
       => buffers' = <<>> /\ key' = -1]_vars

(***************************************************************************)
(* Properties of the keys of the menu.                                     *)
(***************************************************************************)
\* the menu is unmapped by one of calls
C31_Unmaps(calls) ==
    \E j \in DOMAIN calls :
        calls[j].op = "UnmapWindow" /\ calls[j].window = "w"

\* C31: BackSpace or Delete with the cursor on string i removes string i
\* and keeps the others in their order; the menu is not unmapped, unless
\* the list became empty and the program is not a daemon.  With no cursor
\* the list is unchanged.
C31_DeleteAtCursor ==
    [][/\ Next_Event("KeyPress")
       /\ Head(dpy.queue).k \in {XK_BackSpace, XK_Delete}
       /\ HandleKeyPress
       => /\ selected = -1 => buffers' = buffers
          /\ selected # -1
             => /\ selected >= 0 /\ selected < num
                /\ Len(buffers') = num - 1
                /\ \A j \in 1..selected : buffers'[j] = buffers[j]
                /\ \A j \in (selected + 1)..(num - 1) :
                      buffers'[j] = buffers[j + 1]
                /\ C31_Unmaps(dpy'.out) <=> (num = 1 /\ ~ daemon)]_vars

\* the second of three strings has been deleted, and the menu is still
\* mapped
C31_MiddleDeleted ==
    /\ cur.type = "KeyPress" /\ cur.property = "delete"
    /\ cur.k \in {XK_BackSpace, XK_Delete}
    /\ buffers = << StringPool[1], StringPool[3] >>
    /\ dpy.wmapped
    /\ ~ C31_Unmaps(dpy.out)

\* C32: with a list that is not empty, Down moves the cursor from i to
\* (i + 1) mod num and Up from i to (i - 1) mod num; in immediate mode the
\* string under the new cursor is picked and the menu is unmapped;
\* otherwise the menu is not unmapped, the only call is the XClearArea
\* that asks for a redraw, and the stored request is not answered.  With
\* an empty list the cursor, the list and the stored request are as they
\* were and no call is made.
C32_CursorMoves ==
    [][/\ Next_Event("KeyPress")
       /\ Head(dpy.queue).k \in {XK_Up, XK_Down}
       /\ HandleKeyPress
       => LET k == Head(dpy.queue).k
          IN  /\ buffers' = buffers
              /\ request' = request /\ pending' = pending
              /\ Notifies(dpy'.out) = <<>> /\ Writes(dpy'.out) = <<>>
              /\ num = 0 => selected' = selected /\ dpy'.out = <<>>
              /\ num > 0
                 => /\ selected' = (IF k = XK_Down THEN selected + 1
                                    ELSE selected - 1) % num
                    /\ immediate
                       => key' = selected' /\ C31_Unmaps(dpy'.out)
                    /\ ~ immediate
                       => /\ Len(dpy'.out) = 1
                          /\ dpy'.out[1].op = "ClearArea"
                          /\ dpy'.out[1].window = "w"]_vars

\* Up has moved the cursor from the first to the last of two strings; the
\* menu is still mapped and the stored request is not answered
C32_WrappedUp ==
    /\ ~ immediate /\ ~ click
    /\ cur.type = "KeyPress" /\ cur.k = XK_Up /\ cur.property = "cursor"
    /\ num = 2 /\ nuser = 2 /\ selected = 1
    /\ dpy.wmapped
    /\ pending
    /\ reqs[request.id].calls = <<>>

(***************************************************************************)
(* Properties of the state kept between requests.                          *)
(***************************************************************************)
\* C33: handling a request for TARGETS of another client leaves last, the
\* stored request, pending, chosen, firefox, key and the list as they
\* were, and does not map the menu.
C33_TargetsChangeNothing ==
    [][/\ Next_Event("SelectionRequest")
       /\ Head(dpy.queue).req.target = "TARGETS"
       /\ Head(dpy.queue).req.requestor # "w"
       /\ HandleSelectionRequest
       => /\ last' = last
          /\ request' = request
          /\ pending' = pending /\ chosen' = chosen /\ firefox' = firefox
          /\ key' = key
          /\ buffers' = buffers
          /\ showing' = showing
          /\ ~ Maps(dpy'.out)
          /\ status' = "running" => dpy'.wmapped = dpy.wmapped]_vars

\* a request for TARGETS has been answered while a click-mode choice was
\* waiting for its request: the choice is still waiting
C33_TargetsDuringChoice ==
    /\ cur.type = "SelectionRequest" /\ cur.property = "targets"
    /\ Len(Writes(CurCalls)) = 1
    /\ chosen /\ pending /\ key = 0
    /\ request.id # 0 /\ request.id # cur.req.id
    /\ ~ dpy.wmapped

\* C34: ShortTime returns true exactly when the time from *last to now is
\* at most the interval, for now not before *last.
C34_ShortTimeIsElapsed ==
    cur.type = "ShortTime" /\ Micros(cur.now) >= Micros(cur.last)
    => (cur.ret <=> Micros(cur.now) - Micros(cur.last) <= cur.interval)

\* the interval of the repeats has elapsed exactly, across a second
C34_BoundaryAcrossSecond ==
    /\ cur.type = "ShortTime"
    /\ cur.interval = interval
    /\ Micros(cur.now) - Micros(cur.last) = interval
    /\ cur.now.tv_sec = cur.last.tv_sec + 1
    /\ cur.ret

\* C35: when a request is answered from the list (repeat in a short time,
\* repeat for firefox, choice after the click, answer at the unmap of the
\* menu), key is -1 or the index of a string of the list.
C35_KeyWithinList ==
    cur.property \in {"shorttime", "firefox", "chosen", "unmap-answer"}
    => key = -1 \/ (key >= 0 /\ key < num)

\* C36: once a key has picked a string and the menu has been unmapped, a
\* key press read before the UnmapNotify leaves the string that will be
\* sent as it is.
C36_PickKeptUntilUnmap ==
    [][/\ cur.type = "KeyPress" /\ cur.property = "pick"
       /\ showing /\ pending /\ ~ dpy.wmapped
       /\ Next_Event("KeyPress")
       /\ HandleKeyPress
       => ChosenString(buffers', separator, key')
              = ChosenString(buffers, separator, key)]_vars

\* C37: the helper is never called without a string: no call of it has a
\* null selection, and the program does not end by building the command
\* line of such a call.
C37_HelperGetsString ==
    /\ \A i \in 1..Len(dpy.out) :
           dpy.out[i].op = "External" => dpy.out[i].data # NULL
    /\ ~ dpy.segv

(***************************************************************************)
(* Properties of the focus and of the pointer.                             *)
(***************************************************************************)
\* C38: the Expose events of the menu are handled (focus set to the menu,
\* pointer grabbed on it) only while the menu is mapped.
C38_ExposeOnlyWhenMapped ==
    [][/\ Next_Event("Expose")
       /\ Head(dpy.queue).window = "w"
       /\ HandleExpose
       => dpy.wmapped]_vars

\* the menu is hidden: not mapped, its UnmapNotify handled
C39_Hidden ==
    /\ Running
    /\ ~ showing /\ ~ dpy.wmapped
    /\ \A i \in 1..Len(dpy.queue) :
           ~ (dpy.queue[i].type = "UnmapNotify" /\ dpy.queue[i].window = "w")

\* C39: while the program runs and the menu is hidden the pointer is not
\* grabbed; the program releases the pointer when it handles the
\* UnmapNotify of the menu.
C39_NoGrabWhenHidden ==
    /\ C39_Hidden => ~ dpy.grab
    /\ [][/\ C39_Hidden' => ~ dpy'.grab
          /\ (/\ Next_Event("UnmapNotify")
              /\ Head(dpy.queue).window = "w"
              /\ HandleUnmapNotify)
             => \E i \in 1..Len(dpy'.out) : dpy'.out[i].op = "UngrabPointer"]_vars

\* the menu was exposed, a string was picked, the UnmapNotify has been
\* handled and the request answered
C39_HiddenAfterAnswer ==
    /\ C39_Hidden
    /\ cur.type = "UnmapNotify" /\ cur.window = "w"
    /\ cur.property = "unmap-answer"
    /\ key = 0
    /\ \E i \in 1..Len(dpy.out) : dpy.out[i].op = "UngrabPointer"
    /\ ~ dpy.grab

(***************************************************************************)
(* Properties of the end of the program.                                   *)
(***************************************************************************)
\* the flash window is mapped, or its UnmapNotify is still to be handled
C40_FlashToEnd ==
    \/ dpy.fmapped
    \/ \E i \in 1..Len(dpy.queue) :
          dpy.queue[i].type = "UnmapNotify" /\ dpy.queue[i].window = "f"

====
